---- MODULE Spec2Model ----
(***************************************************************************)
(* Quickread backend: the JSON-on-disk document store (utils.py), the      *)
(* format dispatcher (document_processor.py), the answer service           *)
(* (llm_handler.py) and the request handlers that tie them (main.py).      *)
(*                                                                         *)
(* Text is a sequence of one-character strings.  A Python dict is a        *)
(* sequence of <<key, value>> pairs in insertion order with unique keys.   *)
(* Every part of the program has its own specification over the shared     *)
(* variables; the variables a part does not use keep their initial value.  *)
(***************************************************************************)
EXTENDS Integers, Sequences, FiniteSets, TLC

VARIABLES
    files,      \* DOCUMENTS_STORAGE_FOLDER: path -> file body, or NoFile
    call,       \* store harness: the last completed store call and its outcome
    saved,      \* store harness: id -> what the completed calls saved (history)
    listing,    \* store harness: what the last list_all_documents returned
    doc_pc,     \* dispatcher harness: "ready" before the call, "done" after
    doc_in,     \* dispatcher harness: the call's arguments
    doc_out,    \* dispatcher harness: what the call returned or raised
    llm_pc,     \* answer service: where the call of LLMHandler stands
    llm_in,     \* answer service: the call's arguments, the configured key and
                \*   what the remote endpoint will answer
    llm_doc,    \* answer service: document_content as query_document received it
    llm_payload,  \* answer service: the request body built for the remote endpoint
    llm_requests, \* answer service: remote completion requests issued by the call
    llm_out,    \* answer service: what the call returned or raised
    reqs,       \* request handlers: slot -> the frame of the handler under way
    sent,       \* request handlers: the response sent last, and to which request
    running,    \* request handlers: the slot inside a section without await, or 0
    issued,     \* request handlers: the ids generate_document_id has returned
    received,   \* request handlers: requests received so far
    crashes     \* request handlers: times the server process was killed

storeVars == <<files, call, saved, listing>>
docVars == <<doc_pc, doc_in, doc_out>>
llmVars == <<llm_pc, llm_in, llm_doc, llm_payload, llm_requests, llm_out>>
apiVars == <<reqs, sent, running, issued, received, crashes>>

vars == <<files, call, saved, listing, doc_pc, doc_in, doc_out,
          llm_pc, llm_in, llm_doc, llm_payload, llm_requests, llm_out,
          reqs, sent, running, issued, received, crashes>>

otherThanStore == <<docVars, llmVars, apiVars>>
otherThanDoc == <<storeVars, llmVars, apiVars>>
otherThanLlm == <<storeVars, docVars, apiVars>>
\* the handlers use the store's files and the answer service
otherThanApi == <<call, saved, listing, docVars>>

-----------------------------------------------------------------------------
(* Bounds *)

NumIds == 2          \* generated document ids in play
NumTimes == 2        \* distinct readings of the wall clock
MaxEntries == 2      \* entries of a generated ZIP archive
MaxWords == 6        \* words of a generated question
MaxOver == 2         \* how far text lengths go to either side of a cap
MaxRawLen == 4       \* characters of a generated raw response
NumSlots == 2        \* requests the server handles at the same time
MaxRequests == 3     \* requests received in one run
MaxCrashes == 1      \* times the server process is killed in one run

-----------------------------------------------------------------------------
(* Text helpers *)

None == [ found |-> FALSE ]       \* Python's None, as a load's result
Found(v) == [ found |-> TRUE, value |-> v ]

NoFile == [ exists |-> FALSE ]    \* no directory entry under that path

SeqToSet(s) == { s[i] : i \in 1..Len(s) }

UpperAlpha == << "A", "B", "C", "D", "E", "F", "G", "H", "I", "J", "K", "L", "M",
                 "N", "O", "P", "Q", "R", "S", "T", "U", "V", "W", "X", "Y", "Z" >>
LowerAlpha == << "a", "b", "c", "d", "e", "f", "g", "h", "i", "j", "k", "l", "m",
                 "n", "o", "p", "q", "r", "s", "t", "u", "v", "w", "x", "y", "z" >>

LowerChar(c) ==
    IF \E i \in 1..26 : UpperAlpha[i] = c
    THEN LowerAlpha[CHOOSE i \in 1..26 : UpperAlpha[i] = c]
    ELSE c

\* str.lower()
Lower(s) == [ i \in 1..Len(s) |-> LowerChar(s[i]) ]

\* s.endswith(suffix)
EndsWith(s, suffix) ==
    /\ Len(s) >= Len(suffix)
    /\ SubSeq(s, Len(s) - Len(suffix) + 1, Len(s)) = suffix

\* the position of the last c in s, 0 when there is none
LastIndexOf(s, c) ==
    IF \E i \in 1..Len(s) : s[i] = c
    THEN CHOOSE i \in 1..Len(s) : s[i] = c /\ \A j \in (i + 1)..Len(s) : s[j] # c
    ELSE 0

\* s.split(c)[-1]
AfterLast(s, c) == SubSeq(s, LastIndexOf(s, c) + 1, Len(s))

RECURSIVE Concat(_)
Concat(parts) == IF parts = <<>> THEN <<>> ELSE Head(parts) \o Concat(Tail(parts))

\* a call's outcome: a returned value, or a raised Exception with its message
Ok(v) == [ ok |-> TRUE, value |-> v, error |-> <<>> ]
Raise(msg) == [ ok |-> FALSE, value |-> <<>>, error |-> msg ]

-----------------------------------------------------------------------------
(* Python dicts: insertion-ordered <<key, value>> pairs, keys unique *)

DictKeys(d) == [ i \in 1..Len(d) |-> d[i][1] ]

DictHas(d, k) == \E i \in 1..Len(d) : d[i][1] = k

DictGet(d, k) == d[CHOOSE i \in 1..Len(d) : d[i][1] = k][2]

\* d[k] = v: an existing key keeps its position, a new key goes last
DictSet(d, k, v) ==
    IF DictHas(d, k)
    THEN [ i \in 1..Len(d) |-> IF d[i][1] = k THEN <<k, v>> ELSE d[i] ]
    ELSE Append(d, <<k, v>>)

-----------------------------------------------------------------------------
(* utils.py: the metadata/content store *)

Ids == 1..NumIds

MetaSuffix == "_metadata.json"
ContentSuffix == "_content.json"
Suffixes == {MetaSuffix, ContentSuffix}

\* every path the store can name inside DOCUMENTS_STORAGE_FOLDER
Paths == Ids \X Suffixes

get_metadata_path(document_id) == <<document_id, MetaSuffix>>

get_content_path(document_id) == <<document_id, ContentSuffix>>

\* json.dump(obj, f): the members of the object in order, as the file body
json_dump(obj) == [ exists |-> TRUE, json |-> obj ]

RECURSIVE LoadMembers(_, _)
LoadMembers(members, acc) ==
    IF members = <<>> THEN acc
    ELSE LoadMembers(Tail(members), DictSet(acc, Head(members)[1], Head(members)[2]))

\* json.load(f): the object rebuilt member by member
json_load(body) == LoadMembers(body.json, <<>>)

os_path_exists(fs, path) == fs[path].exists

\* open(path, 'w') + json.dump: creates or overwrites
write_json(fs, path, obj) == [ fs EXCEPT ![path] = json_dump(obj) ]

\* os.remove(path): FileNotFoundError when there is no such file
os_remove(fs, path) ==
    IF ~fs[path].exists
    THEN [ fs |-> fs, exc |-> "FileNotFoundError" ]
    ELSE [ fs |-> [ fs EXCEPT ![path] = NoFile ], exc |-> "none" ]

\* now is datetime.now().isoformat()
save_document_metadata(fs, document_id, filename, file_size, now) ==
    write_json(fs, get_metadata_path(document_id),
               << <<"document_id", document_id>>,
                  <<"filename", filename>>,
                  <<"upload_date", now>>,
                  <<"file_size", file_size>> >>)

load_document_metadata(fs, document_id) ==
    IF os_path_exists(fs, get_metadata_path(document_id))
    THEN Found(json_load(fs[get_metadata_path(document_id)]))
    ELSE None

save_document_content(fs, document_id, content) ==
    write_json(fs, get_content_path(document_id), content)

load_document_content(fs, document_id) ==
    IF os_path_exists(fs, get_content_path(document_id))
    THEN Found(json_load(fs[get_content_path(document_id)]))
    ELSE None

\* os.listdir in the order "order" (a sequence of paths; the order is the
\* file system's), keeping the names that end with "_metadata.json"
list_all_documents_unfiltered(fs, order) ==
    LET RECURSIVE Walk(_, _)
        Walk(rest, documents) ==
            IF rest = <<>> THEN documents
            ELSE Walk(Tail(rest), Append(documents, json_load(fs[Head(rest)])))
    IN Walk(order, <<>>)

list_all_documents(fs, order) ==
    LET RECURSIVE Walk(_, _)
        Walk(rest, documents) ==
            IF rest = <<>> THEN documents
            ELSE IF Head(rest)[2] = MetaSuffix
                 THEN Walk(Tail(rest), Append(documents, json_load(fs[Head(rest)])))
                 ELSE Walk(Tail(rest), documents)
    IN Walk(order, <<>>)

\* the first half of delete_document: the metadata file
delete_metadata_file(fs, document_id) ==
    IF os_path_exists(fs, get_metadata_path(document_id))
    THEN os_remove(fs, get_metadata_path(document_id))
    ELSE [ fs |-> fs, exc |-> "none" ]

\* the second half of delete_document without its os.path.exists test
delete_content_file_unguarded(fs, document_id) ==
    os_remove(fs, get_content_path(document_id))

\* the second half of delete_document: the content file
delete_content_file(fs, document_id) ==
    IF os_path_exists(fs, get_content_path(document_id))
    THEN os_remove(fs, get_content_path(document_id))
    ELSE [ fs |-> fs, exc |-> "none" ]

delete_document_unguarded(fs, document_id) ==
    LET first == os_remove(fs, get_metadata_path(document_id))
    IN IF first.exc # "none" THEN first
       ELSE os_remove(first.fs, get_content_path(document_id))

delete_document(fs, document_id) ==
    LET first == delete_metadata_file(fs, document_id)
    IN IF first.exc # "none" THEN first
       ELSE delete_content_file(first.fs, document_id)

-----------------------------------------------------------------------------
(* The store driven call by call, as a test of utils.py drives it.  Every  *)
(* call runs to completion before the next; "saved" is the history of what *)
(* the completed calls were given, kept apart from what is on disk.        *)

\* (filename, byte size) of the uploads the harness saves
Uploads == { << <<"a", ".", "t", "x", "t">>, 5 >>, << <<"b", ".", "p", "d", "f">>, 0 >> }

Timestamps == 1..NumTimes

\* the extracted contents the harness saves: {content, format} dicts
Contents ==
    { << <<"content", <<"h", "i">>>>, <<"format", "txt">> >>,
      << <<"content", << <<"x", <<"y">>>> >> >>, <<"format", "zip">> >> }

NoCall == [ op |-> "none", id |-> 0, exc |-> "none", had |-> FALSE ]

NeverSaved ==
    [ meta |-> "never", filename |-> <<>>, size |-> 0, date |-> 0,
      content |-> "never", value |-> <<>> ]

NotListed == [ valid |-> FALSE, documents |-> <<>> ]

StoreIdle ==
    /\ files = [ p \in Paths |-> NoFile ]
    /\ call = NoCall
    /\ saved = [ id \in Ids |-> NeverSaved ]
    /\ listing = NotListed

StoreInit ==
    /\ files = [ p \in Paths |-> NoFile ]
    /\ call = NoCall
    /\ saved = [ id \in Ids |-> NeverSaved ]
    /\ listing = NotListed

HasRecords(fs, id) ==
    os_path_exists(fs, get_metadata_path(id)) \/ os_path_exists(fs, get_content_path(id))

CallSaveMetadata(id, filename, size, now) ==
    /\ files' = save_document_metadata(files, id, filename, size, now)
    /\ call' = [ op |-> "save_metadata", id |-> id, exc |-> "none",
                 had |-> HasRecords(files, id) ]
    /\ saved' = [ saved EXCEPT ![id].meta = "live", ![id].filename = filename,
                               ![id].size = size, ![id].date = now ]
    /\ listing' = NotListed
    /\ UNCHANGED otherThanStore

CallSaveContent(id, content) ==
    /\ files' = save_document_content(files, id, content)
    /\ call' = [ op |-> "save_content", id |-> id, exc |-> "none",
                 had |-> HasRecords(files, id) ]
    /\ saved' = [ saved EXCEPT ![id].content = "live", ![id].value = content ]
    /\ listing' = NotListed
    /\ UNCHANGED otherThanStore

\* a call that raises has still done what it did before raising
CallDelete(id) ==
    LET out == delete_document(files, id)
    IN /\ files' = out.fs
       /\ call' = [ op |-> "delete", id |-> id, exc |-> out.exc,
                    had |-> HasRecords(files, id) ]
       /\ saved' = [ saved EXCEPT
                       ![id].meta = IF @ = "never" THEN "never" ELSE "deleted",
                       ![id].content = IF @ = "never" THEN "never" ELSE "deleted" ]
       /\ listing' = NotListed
       /\ UNCHANGED otherThanStore

RECURSIVE Perms(_)
Perms(S) ==
    IF S = {} THEN { <<>> }
    ELSE UNION { { <<x>> \o p : p \in Perms(S \ {x}) } : x \in S }

\* os.listdir: the names present, in an order the file system chooses
os_listdir(fs) == Perms({ p \in Paths : fs[p].exists })

CallList ==
    \E order \in os_listdir(files) :
        /\ listing' = [ valid |-> TRUE, documents |-> list_all_documents(files, order) ]
        /\ call' = [ op |-> "list", id |-> 0, exc |-> "none", had |-> FALSE ]
        /\ UNCHANGED <<files, saved>>
        /\ UNCHANGED otherThanStore

StoreNext ==
    \/ \E id \in Ids, u \in Uploads, now \in Timestamps :
           CallSaveMetadata(id, u[1], u[2], now)
    \/ \E id \in Ids, c \in Contents : CallSaveContent(id, c)
    \/ \E id \in Ids : CallDelete(id)
    \/ CallList

-----------------------------------------------------------------------------
(* document_processor.py: the format extractors and the dispatcher.        *)
(*                                                                         *)
(* A byte buffer is described by what the parsers make of it:              *)
(*   kind    the container the bytes parse as: "pdf", "docx", "xlsx",      *)
(*           "zip", or "none" when no container parser accepts them        *)
(*   utf8    whether bytes.decode('utf-8') succeeds                        *)
(*   chars   the decoded text (utf-8 when utf8, latin-1 otherwise)         *)
(*   body    what the container holds: pages (pdf), paragraphs and tables  *)
(*           (docx), sheets (xlsx)                                         *)
(*   entries the central directory, when the bytes open as a ZIP archive   *)
(*   size    len(bytes)                                                    *)

NL == "\n"

RECURSIVE Join(_, _)
\* sep.join(parts)
Join(parts, sep) ==
    IF parts = <<>> THEN <<>>
    ELSE IF Len(parts) = 1 THEN Head(parts)
    ELSE Head(parts) \o sep \o Join(Tail(parts), sep)

\* what str(e) of a parser library's exception says: not the program's text
LibraryError == <<"b", "a", "d", " ", "f", "i", "l", "e">>

process_pdf(file_bytes) ==
    IF file_bytes.kind = "pdf"
    THEN Ok(Concat([ i \in 1..Len(file_bytes.body.pages) |->
                         file_bytes.body.pages[i] \o <<NL>> ]))
    ELSE Raise(<<"E", "r", "r", "o", "r", " ", "p", "r", "o", "c", "e", "s", "s", "i", "n", "g", " ", "P", "D", "F", ":", " ">> \o LibraryError)

\* utf-8 first, latin-1 when that fails; latin-1 decodes every byte sequence
process_txt(file_bytes) == Ok(file_bytes.chars)

process_docx(file_bytes) ==
    IF file_bytes.kind = "docx"
    THEN LET paragraphs == file_bytes.body.paragraphs
             tables == file_bytes.body.tables
             RowText(row) == Concat([ c \in 1..Len(row) |-> row[c] \o <<" ">> ])
             TableText(table) ==
                 Concat([ r \in 1..Len(table) |-> RowText(table[r]) ]) \o <<NL>>
         IN Ok(Concat([ i \in 1..Len(paragraphs) |-> paragraphs[i] \o <<NL>> ])
               \o Concat([ t \in 1..Len(tables) |-> TableText(tables[t]) ]))
    ELSE Raise(<<"E", "r", "r", "o", "r", " ", "p", "r", "o", "c", "e", "s", "s", "i", "n", "g", " ", "D", "O", "C", "X", ":", " ">> \o LibraryError)

process_xlsx(file_bytes) ==
    IF file_bytes.kind = "xlsx"
    THEN LET sheets == file_bytes.body.sheets
             CellText(cell) == IF cell.none THEN <<>> ELSE cell.str
             RowText(row) ==
                 Join([ c \in 1..Len(row) |-> CellText(row[c]) ], <<" ", "|", " ">>)
                 \o <<NL>>
             SheetText(sheet) ==
                 <<NL, "=", "=", "=", " ", "S", "h", "e", "e", "t", ":", " ">> \o sheet.name \o <<" ", "=", "=", "=", NL>>
                 \o Concat([ r \in 1..Len(sheet.rows) |-> RowText(sheet.rows[r]) ])
         IN Ok(Concat([ i \in 1..Len(sheets) |-> SheetText(sheets[i]) ]))
    ELSE Raise(<<"E", "r", "r", "o", "r", " ", "p", "r", "o", "c", "e", "s", "s", "i", "n", "g", " ", "X", "L", "S", "X", ":", " ">> \o LibraryError)

\* zipfile.ZipFile(...) opens whatever has a central directory: a docx and
\* an xlsx are ZIP containers too
ZipOpens(file_bytes) == file_bytes.kind \in {"zip", "docx", "xlsx"}

\* zip_ref.filelist
ZipFileList(file_bytes) == file_bytes.entries

\* zip_ref.read(name): by name, so of the LAST entry with that name; raises
\* when that entry cannot be decompressed (bad CRC, encrypted, bad method)
ZipRead(filelist, name) ==
    LET last == CHOOSE i \in 1..Len(filelist) :
                    /\ filelist[i].filename = name
                    /\ \A j \in (i + 1)..Len(filelist) : filelist[j].filename # name
    IN IF filelist[last].readable THEN Ok(filelist[last].data)
       ELSE Raise(LibraryError)

\* file_info.filename.lower().split('.')[-1] if '.' in file_info.filename else ''
ZipEntryExt(filename) ==
    IF \E i \in 1..Len(filename) : filename[i] = "."
    THEN AfterLast(Lower(filename), ".")
    ELSE <<>>

\* "[Unsupported file type: ."
UnsupportedOpen ==
    <<"[", "U", "n", "s", "u", "p", "p", "o", "r", "t", "e", "d", " ", "f", "i", "l", "e", " ", "t", "y", "p", "e", ":", " ", ".">>

\* "[Error processing file: "
ErrorOpen ==
    <<"[", "E", "r", "r", "o", "r", " ", "p", "r", "o", "c", "e", "s", "s", "i", "n", "g", " ", "f", "i", "l", "e", ":", " ">>

\* the inner try of process_zip: one entry's bytes to its text or placeholder
ZipEntryText(file_ext, file_content) ==
    LET out == IF file_ext = <<"p", "d", "f">> THEN process_pdf(file_content)
               ELSE IF file_ext = <<"t", "x", "t">> THEN process_txt(file_content)
               ELSE IF file_ext = <<"d", "o", "c", "x">> THEN process_docx(file_content)
               ELSE IF file_ext = <<"x", "l", "s", "x">> THEN process_xlsx(file_content)
               ELSE Ok(UnsupportedOpen \o file_ext \o <<"]">>)
    IN IF out.ok THEN out.value
       ELSE ErrorOpen \o out.error \o <<"]">>

RECURSIVE ZipLoop(_, _, _)
\* the for loop over zip_ref.filelist from entry i on; a raise of
\* zip_ref.read leaves the loop and reaches the outer except
ZipLoop(filelist, i, contents) ==
    IF i > Len(filelist) THEN Ok(contents)
    ELSE IF EndsWith(filelist[i].filename, <<"/">>)
         THEN ZipLoop(filelist, i + 1, contents)
    ELSE LET name == filelist[i].filename
             read == ZipRead(filelist, name)
         IN IF ~read.ok
            THEN Raise(<<"E", "r", "r", "o", "r", " ", "p", "r", "o", "c", "e", "s", "s", "i", "n", "g", " ", "Z", "I", "P", ":", " ">> \o read.error)
            ELSE ZipLoop(filelist, i + 1,
                         DictSet(contents, name, ZipEntryText(ZipEntryExt(name), read.value)))

process_zip(file_bytes) ==
    IF ~ZipOpens(file_bytes)
    THEN Raise(<<"E", "r", "r", "o", "r", " ", "p", "r", "o", "c", "e", "s", "s", "i", "n", "g", " ", "Z", "I", "P", ":", " ">> \o LibraryError)
    ELSE ZipLoop(ZipFileList(file_bytes), 1, <<>>)

Tagged(out, format) ==
    IF out.ok THEN Ok(<< <<"content", out.value>>, <<"format", format>> >>) ELSE out

process_document_txt_fallback(file_bytes, file_extension) ==
    IF file_extension = <<".", "p", "d", "f">> THEN Tagged(process_pdf(file_bytes), "pdf")
    ELSE IF file_extension = <<".", "d", "o", "c", "x">>
         THEN Tagged(process_docx(file_bytes), "docx")
    ELSE IF file_extension = <<".", "x", "l", "s", "x">>
         THEN Tagged(process_xlsx(file_bytes), "xlsx")
    ELSE IF file_extension = <<".", "z", "i", "p">>
         THEN Tagged(process_zip(file_bytes), "zip")
    ELSE Tagged(process_txt(file_bytes), "txt")

process_document(file_bytes, file_extension) ==
    IF file_extension = <<".", "p", "d", "f">> THEN Tagged(process_pdf(file_bytes), "pdf")
    ELSE IF file_extension = <<".", "t", "x", "t">>
         THEN Tagged(process_txt(file_bytes), "txt")
    ELSE IF file_extension = <<".", "d", "o", "c", "x">>
         THEN Tagged(process_docx(file_bytes), "docx")
    ELSE IF file_extension = <<".", "x", "l", "s", "x">>
         THEN Tagged(process_xlsx(file_bytes), "xlsx")
    ELSE IF file_extension = <<".", "z", "i", "p">>
         THEN Tagged(process_zip(file_bytes), "zip")
    ELSE Raise(<<"U", "n", "s", "u", "p", "p", "o", "r", "t", "e", "d", " ", "f", "i", "l", "e", " ", "f", "o", "r", "m", "a", "t", ":", " ">> \o file_extension)

-----------------------------------------------------------------------------
(* The dispatcher called on sample buffers: process_document with every    *)
(* extension, and process_zip on every archive of up to MaxEntries entries *)

Bytes(kind, utf8, chars, body, entries, size) ==
    [ kind |-> kind, utf8 |-> utf8, chars |-> chars, body |-> body,
      entries |-> entries, size |-> size ]

NoBody == [ pages |-> <<>>, paragraphs |-> <<>>, tables |-> <<>>, sheets |-> <<>> ]

Entry(filename, data, readable) ==
    [ filename |-> filename, data |-> data, readable |-> readable ]

TxtBytes == Bytes("none", TRUE, <<"h", "i">>, NoBody, <<>>, 2)
Latin1Bytes == Bytes("none", FALSE, <<"y", "~">>, NoBody, <<>>, 2)
EmptyBytes == Bytes("none", TRUE, <<>>, NoBody, <<>>, 0)
PdfBytes ==
    Bytes("pdf", FALSE, <<"%", "P", "D", "F">>,
          [ NoBody EXCEPT !.pages = << <<"p", "1">>, <<"p", "2">> >> ], <<>>, 4)
XmlBytes == Bytes("none", TRUE, <<"<", "w", ">">>, NoBody, <<>>, 3)
DocxBytes ==
    Bytes("docx", FALSE, <<"P", "K">>,
          [ NoBody EXCEPT !.paragraphs = << <<"a">>, <<"b">> >>,
                          !.tables = << << << <<"c">>, <<"d">> >>, << <<"e">> >> >> >> ],
          << Entry(<<"w", "/", "d", ".", "x", "m", "l">>, XmlBytes, TRUE) >>, 5)
XlsxBytes ==
    Bytes("xlsx", FALSE, <<"P", "K">>,
          [ NoBody EXCEPT !.sheets =
              << [ name |-> <<"S", "1">>,
                   rows |-> << << [ none |-> FALSE, str |-> <<"1">> ],
                                  [ none |-> TRUE, str |-> <<>> ],
                                  [ none |-> FALSE, str |-> <<"x">> ] >> >> ] >> ],
          << Entry(<<"x", "/", "s", ".", "x", "m", "l">>, XmlBytes, TRUE) >>, 6)

PlainSamples == { TxtBytes, Latin1Bytes, EmptyBytes, PdfBytes, DocxBytes, XlsxBytes }

\* the entries an archive is made of: well-formed, corrupt for the claimed
\* format, unsupported, a directory, one that cannot be decompressed, an
\* upper-case extension, no extension, a dot in a directory name only
EntryPool ==
    { Entry(<<"a", ".", "t", "x", "t">>, TxtBytes, TRUE),
      Entry(<<"a", ".", "t", "x", "t">>, Latin1Bytes, TRUE),
      Entry(<<"b", ".", "p", "d", "f">>, PdfBytes, TRUE),
      Entry(<<"c", ".", "p", "d", "f">>, TxtBytes, TRUE),
      Entry(<<"d", ".", "e", "x", "e">>, Latin1Bytes, TRUE),
      Entry(<<"s", "/">>, EmptyBytes, TRUE),
      Entry(<<"e", ".", "d", "o", "c", "x">>, DocxBytes, FALSE),
      Entry(<<"R", ".", "X", "L", "S", "X">>, XlsxBytes, TRUE),
      Entry(<<"v", ".", "2", "/", "n">>, TxtBytes, TRUE) }

RECURSIVE SeqsUpTo(_, _)
\* the sequences over S of length at most n
SeqsUpTo(S, n) ==
    IF n = 0 THEN { <<>> }
    ELSE LET shorter == SeqsUpTo(S, n - 1)
         IN shorter \cup { Append(q, x) : q \in shorter, x \in S }

Archives ==
    { Bytes("zip", FALSE, <<"P", "K">>, NoBody, entries, 22 + Len(entries)) :
        entries \in SeqsUpTo(EntryPool, MaxEntries) }

Extensions ==
    { <<".", "p", "d", "f">>, <<".", "t", "x", "t">>, <<".", "d", "o", "c", "x">>,
      <<".", "x", "l", "s", "x">>, <<".", "z", "i", "p">>, <<".", "e", "x", "e">>,
      <<".", "P", "D", "F">>, <<>> }

NoOutcome == Raise(<<>>)

DocInit ==
    /\ doc_pc = "ready"
    /\ doc_in \in
         { [ fn |-> "process_document", bytes |-> b, ext |-> e ] :
             b \in PlainSamples \cup Archives, e \in Extensions }
         \cup { [ fn |-> "process_zip", bytes |-> b, ext |-> <<>> ] :
                  b \in PlainSamples \cup Archives }
    /\ doc_out = NoOutcome

DocIdle ==
    /\ doc_pc = "idle"
    /\ doc_in = [ fn |-> "none", bytes |-> EmptyBytes, ext |-> <<>> ]
    /\ doc_out = NoOutcome

CallProcessDocument ==
    /\ doc_pc = "ready" /\ doc_in.fn = "process_document"
    /\ doc_out' = process_document(doc_in.bytes, doc_in.ext)
    /\ doc_pc' = "done"
    /\ UNCHANGED doc_in
    /\ UNCHANGED otherThanDoc

CallProcessZip ==
    /\ doc_pc = "ready" /\ doc_in.fn = "process_zip"
    /\ doc_out' = process_zip(doc_in.bytes)
    /\ doc_pc' = "done"
    /\ UNCHANGED doc_in
    /\ UNCHANGED otherThanDoc

DocNext ==
    \/ CallProcessDocument
    \/ CallProcessZip

-----------------------------------------------------------------------------
(* llm_handler.py: greeting detection.  A pattern is the set of its        *)
(* alternatives; an alternative is a sequence of literal words, matched    *)
(* with \s+ between consecutive words and \b before the first and after    *)
(* the last.                                                               *)

TAB == "\t"
CR == "\r"
FF == "\f"

Digits == { "0", "1", "2", "3", "4", "5", "6", "7", "8", "9" }

\* \w
IsWordChar(c) == c \in SeqToSet(LowerAlpha) \cup SeqToSet(UpperAlpha) \cup Digits \cup {"_"}

\* \s, and what str.strip() and str.split() take for whitespace
IsSpace(c) == c \in { " ", TAB, NL, CR, FF }

RECURSIVE LStrip(_)
LStrip(s) == IF s # <<>> /\ IsSpace(Head(s)) THEN LStrip(Tail(s)) ELSE s

RECURSIVE RStrip(_)
RStrip(s) ==
    IF s # <<>> /\ IsSpace(s[Len(s)]) THEN RStrip(SubSeq(s, 1, Len(s) - 1)) ELSE s

\* str.strip()
Strip(s) == RStrip(LStrip(s))

\* len(s.split()): the maximal runs of non-whitespace
WordCount(s) ==
    Cardinality({ i \in 1..Len(s) : ~IsSpace(s[i]) /\ (i = 1 \/ IsSpace(s[i - 1])) })

\* \b at the gap before s[i]
WordBoundary(s, i) ==
    LET before == i > 1 /\ i - 1 <= Len(s) /\ IsWordChar(s[i - 1])
        after == i >= 1 /\ i <= Len(s) /\ IsWordChar(s[i])
    IN before # after

\* the literal word at s[i..]
LiteralAt(s, i, word) ==
    i + Len(word) - 1 <= Len(s) /\ SubSeq(s, i, i + Len(word) - 1) = word

\* the first position at or after i that holds no whitespace
SkipSpaces(s, i) ==
    IF \E j \in i..Len(s) : ~IsSpace(s[j])
    THEN CHOOSE j \in i..Len(s) : ~IsSpace(s[j]) /\ \A k \in i..(j - 1) : IsSpace(s[k])
    ELSE Len(s) + 1

RECURSIVE MatchWords(_, _, _)
\* the position after a match of word \s+ word ... at s[i..], 0 when none
MatchWords(s, i, alternative) ==
    IF ~LiteralAt(s, i, Head(alternative)) THEN 0
    ELSE LET next == i + Len(Head(alternative))
         IN IF Len(alternative) = 1 THEN next
            ELSE IF next <= Len(s) /\ IsSpace(s[next])
                 THEN MatchWords(s, SkipSpaces(s, next), Tail(alternative))
            ELSE 0

\* re.search(pattern, s)
re_search(pattern, s) ==
    \E i \in 1..Len(s), alternative \in pattern :
        /\ WordBoundary(s, i)
        /\ LET end == MatchWords(s, i, alternative)
           IN end > 0 /\ WordBoundary(s, end)

\* self.greeting_patterns
greeting_patterns ==
    << { << <<"h", "i">> >>,
      << <<"h", "e", "l", "l", "o">> >>,
      << <<"h", "e", "y">> >>,
      << <<"g", "r", "e", "e", "t", "i", "n", "g", "s">> >>,
      << <<"g", "o", "o", "d">>, <<"m", "o", "r", "n", "i", "n", "g">> >>,
      << <<"g", "o", "o", "d">>, <<"a", "f", "t", "e", "r", "n", "o", "o", "n">> >>,
      << <<"g", "o", "o", "d">>, <<"e", "v", "e", "n", "i", "n", "g">> >>,
      << <<"h", "o", "w", "d", "y">> >> },
       { << <<"h", "o", "w">>, <<"a", "r", "e">>, <<"y", "o", "u">> >> },
       { << <<"w", "h", "a", "t", "'", "s">>, <<"u", "p">> >>, << <<"w", "h", "a", "t", "s">>, <<"u", "p">> >> },
       { << <<"n", "i", "c", "e">>, <<"t", "o">>, <<"m", "e", "e", "t">> >> },
       { << <<"p", "l", "e", "a", "s", "u", "r", "e">>, <<"t", "o">>, <<"m", "e", "e", "t">> >> } >>

\* the short-message limit of is_greeting
GreetingMaxWords == 5

is_greeting(text) ==
    LET text_lower == Strip(Lower(text))
    IN /\ WordCount(text_lower) <= GreetingMaxWords
       /\ \E p \in 1..Len(greeting_patterns) : re_search(greeting_patterns[p], text_lower)

\* get_greeting_response(); "wave" stands for the emoji of the source
get_greeting_response ==
    <<"H", "e", "l", "l", "o", "!", " ">> \o <<"wave">> \o
    <<" ", "I", "'", "m", " ", "y", "o", "u", "r", " ", "d", "o", "c", "u", "m", "e", "n", "t", " ", "a", "s", "s", "i", "s", "t", "a", "n", "t", ".", " ", "I", "'", "m", " ", "h", "e", "r", "e", " ", "t", "o", " ", "h", "e", "l", "p", " ", "y", "o", "u", " ", "a", "n", "a", "l", "y", "z", "e", " ", "a", "n", "d", " ", "u", "n", "d", "e", "r", "s", "t", "a", "n", "d", " ", "y", "o", "u", "r", " ", "u", "p", "l", "o", "a", "d", "e", "d", " ", "d", "o", "c", "u", "m", "e", "n", "t", "s", ".", NL, NL, "Y", "o", "u", " ", "c", "a", "n", " ", "a", "s", "k", " ", "m", "e", " ", "q", "u", "e", "s", "t", "i", "o", "n", "s", " ", "a", "b", "o", "u", "t", ":", NL, "-", " ", "S", "p", "e", "c", "i", "f", "i", "c", " ", "i", "n", "f", "o", "r", "m", "a", "t", "i", "o", "n", " ", "i", "n", " ", "y", "o", "u", "r", " ", "d", "o", "c", "u", "m", "e", "n", "t", "s", NL, "-", " ", "S", "u", "m", "m", "a", "r", "i", "e", "s", " ", "o", "f", " ", "c", "o", "n", "t", "e", "n", "t", NL, "-", " ", "A", "n", "a", "l", "y", "s", "i", "s", " ", "a", "n", "d", " ", "i", "n", "s", "i", "g", "h", "t", "s", NL, "-", " ", "A", "n", "y", " ", "c", "l", "a", "r", "i", "f", "i", "c", "a", "t", "i", "o", "n", "s", " ", "y", "o", "u", " ", "n", "e", "e", "d", NL, NL, "J", "u", "s", "t", " ", "a", "s", "k", " ", "y", "o", "u", "r", " ", "q", "u", "e", "s", "t", "i", "o", "n", ",", " ", "a", "n", "d", " ", "I", "'", "l", "l", " ", "d", "o", " ", "m", "y", " ", "b", "e", "s", "t", " ", "t", "o", " ", "h", "e", "l", "p", " ", "b", "a", "s", "e", "d", " ", "o", "n", " ", "t", "h", "e", " ", "d", "o", "c", "u", "m", "e", "n", "t", " ", "c", "o", "n", "t", "e", "n", "t", "!">>

-----------------------------------------------------------------------------
(* llm_handler.py: clean_response.  re.sub is a left-to-right scan: where   *)
(* the pattern matches at a position the match is replaced and the scan     *)
(* goes on after it, otherwise the character is kept.  Each pattern is      *)
(* given by the length of its match at a position, 0 when there is none.    *)

BACKSLASH == "\\"
\* the grave accent, by name
BACKTICK == "GRAVE"

\* [U+200B-U+200D U+FEFF \x00-\x08 \x0B-\x0C \x0E-\x1F \x7F]: the zero-width
\* characters and the control characters but tab, newline and carriage
\* return; a name stands for the character it names
ControlChars == { "ZWSP", "ZWNJ", "ZWJ", "BOM", "NUL", "BEL", "VT", FF, "ESC", "DEL" }

\* [0-9a-fA-F]
HexDigits == Digits \cup { "a", "b", "c", "d", "e", "f", "A", "B", "C", "D", "E", "F" }

\* re.sub(pattern, repl, s)
Sub(s, MatchLen(_, _), repl) ==
    LET scan[i \in 1..(Len(s) + 1)] ==
            IF i > Len(s) THEN <<>>
            ELSE LET n == MatchLen(s, i)
                 IN IF n > 0 THEN repl \o scan[i + n] ELSE <<s[i]>> \o scan[i + 1]
    IN scan[1]

ControlAt(s, i) == IF s[i] \in ControlChars THEN 1 ELSE 0

\* \\x[0-9a-fA-F]{2}
HexEscapeAt(s, i) ==
    IF /\ s[i] = BACKSLASH /\ i + 3 <= Len(s) /\ s[i + 1] = "x"
       /\ \A k \in (i + 2)..(i + 3) : s[k] \in HexDigits
    THEN 4 ELSE 0

\* \\u[0-9a-fA-F]{4}
UnicodeEscapeAt(s, i) ==
    IF /\ s[i] = BACKSLASH /\ i + 5 <= Len(s) /\ s[i + 1] = "u"
       /\ \A k \in (i + 2)..(i + 5) : s[k] \in HexDigits
    THEN 6 ELSE 0

\* \\[rnt]
RntEscapeAt(s, i) ==
    IF s[i] = BACKSLASH /\ i + 1 <= Len(s) /\ s[i + 1] \in {"r", "n", "t"}
    THEN 2 ELSE 0

\* <[^>]+>
HtmlTagAt(s, i) ==
    IF s[i] = "<" /\ \E j \in (i + 1)..Len(s) : s[j] = ">"
    THEN LET close == CHOOSE j \in (i + 1)..Len(s) :
                          s[j] = ">" /\ \A k \in (i + 1)..(j - 1) : s[k] # ">"
         IN IF close >= i + 2 THEN close - i + 1 ELSE 0
    ELSE 0

ThreeBackticksAt(s, i) ==
    i + 2 <= Len(s) /\ \A k \in i..(i + 2) : s[k] = BACKTICK

\* ^ with re.MULTILINE
LineStartAt(s, i) == i = 1 \/ s[i - 1] = NL

\* $ with re.MULTILINE
LineEndAt(s, i) == i = Len(s) + 1 \/ (i <= Len(s) /\ s[i] = NL)

\* ^ three backticks [\w]* \n? with re.MULTILINE
FenceOpenAt(s, i) ==
    IF LineStartAt(s, i) /\ ThreeBackticksAt(s, i)
    THEN LET after == IF \E j \in (i + 3)..Len(s) : ~IsWordChar(s[j])
                      THEN CHOOSE j \in (i + 3)..Len(s) :
                               ~IsWordChar(s[j]) /\ \A k \in (i + 3)..(j - 1) : IsWordChar(s[k])
                      ELSE Len(s) + 1
         IN IF after <= Len(s) /\ s[after] = NL THEN after - i + 1 ELSE after - i
    ELSE 0

\* \n? three backticks $ with re.MULTILINE
FenceCloseAt(s, i) ==
    IF s[i] = NL /\ ThreeBackticksAt(s, i + 1) /\ LineEndAt(s, i + 4) THEN 4
    ELSE IF ThreeBackticksAt(s, i) /\ LineEndAt(s, i + 3) THEN 3
    ELSE 0

\* the length of the run of c that starts at s[i]
RunAt(s, i, c) ==
    IF s[i] # c THEN 0
    ELSE IF \E j \in i..Len(s) : s[j] # c
         THEN (CHOOSE j \in i..Len(s) : s[j] # c /\ \A k \in i..(j - 1) : s[k] = c) - i
    ELSE Len(s) - i + 1

\* a run of spaces: the pattern / +/
SpacesAt(s, i) == RunAt(s, i, " ")

\* \n{3,}
NewlinesAt(s, i) == IF RunAt(s, i, NL) >= 3 THEN RunAt(s, i, NL) ELSE 0

RECURSIVE SplitLines(_)
\* s.split('\n')
SplitLines(s) ==
    IF \E i \in 1..Len(s) : s[i] = NL
    THEN LET first == CHOOSE i \in 1..Len(s) : s[i] = NL /\ \A k \in 1..(i - 1) : s[k] # NL
         IN <<SubSeq(s, 1, first - 1)>> \o SplitLines(SubSeq(s, first + 1, Len(s)))
    ELSE <<s>>

\* the loop over lines: a blank line stays blank, another is stripped and
\* its runs of spaces collapsed
CleanLine(line) ==
    IF Strip(line) # <<>> THEN Sub(Strip(line), SpacesAt, <<" ">>) ELSE <<>>

\* the try block of clean_response, on a str
CleanText(raw) ==
    LET c1 == Sub(raw, ControlAt, <<>>)
        c2 == Sub(c1, HexEscapeAt, <<>>)
        c3 == Sub(c2, UnicodeEscapeAt, <<>>)
        c4 == Sub(c3, RntEscapeAt, <<>>)
        c5 == Sub(c4, HtmlTagAt, <<>>)
        c6 == Sub(c5, FenceOpenAt, <<>>)
        c7 == Sub(c6, FenceCloseAt, <<>>)
        lines == SplitLines(c7)
        c8 == Join([ i \in 1..Len(lines) |-> CleanLine(lines[i]) ], <<NL>>)
        c9 == Sub(c8, NewlinesAt, <<NL, NL>>)
    IN Strip(c9)

\* what the message's "content" can be: a str, or JSON null
StrContent(text) == [ isstr |-> TRUE, text |-> text ]
NullContent == [ isstr |-> FALSE, text |-> <<>> ]

\* re.sub raises TypeError on what is no str; the handler then calls
\* content.strip(), which None does not have
clean_response(content) ==
    IF content.isstr THEN Ok(CleanText(content.text))
    ELSE Raise(<<"'", "N", "o", "n", "e", "T", "y", "p", "e", "'", " ", "o", "b", "j", "e", "c", "t", " ", "h", "a", "s", " ", "n", "o", " ", "a", "t", "t", "r", "i", "b", "u", "t", "e", " ", "'", "s", "t", "r", "i", "p", "'">>)

-----------------------------------------------------------------------------
(* llm_handler.py: query_document and query_with_context.  One call is      *)
(* followed from its entry to its return or raise; llm_in.remote is what    *)
(* the remote endpoint does with the request once it is posted.             *)

\* document_content[:8000] in the prompt of query_document
PromptDocChars == 8000

\* document_content[:8000] in full_content of query_with_context
ContextDocChars == 8000

\* "max_tokens" of the payload
MaxTokens == 2000

\* s[:n]
Take(s, n) == IF Len(s) <= n THEN s ELSE SubSeq(s, 1, n)

\* the text between context and document in full_content
ContextSeparator ==
    <<NL, NL, "D", "o", "c", "u", "m", "e", "n", "t", " ", "C", "o", "n", "t", "e", "n", "t", ":", NL>>

NoPayload ==
    [ built |-> FALSE, document |-> <<>>, question |-> <<>>, temperature |-> 0,
      max_tokens |-> 0, bearer |-> <<>> ]

\* prompt, headers and payload of query_document: the f-string has two
\* slots, the document section and the question
BuildPayloadUncapped(document_content, question, temperature, api_key) ==
    [ built |-> TRUE, document |-> document_content, question |-> question,
      temperature |-> temperature, max_tokens |-> MaxTokens, bearer |-> api_key ]

BuildPayload(document_content, question, temperature, api_key) ==
    [ built |-> TRUE, document |-> Take(document_content, PromptDocChars),
      question |-> question, temperature |-> temperature,
      max_tokens |-> MaxTokens, bearer |-> api_key ]

\* full_content of query_with_context
FullContent(context, document_content) ==
    context \o ContextSeparator \o Take(document_content, ContextDocChars)

LlmReturn(out) ==
    /\ llm_out' = out
    /\ llm_pc' = "done"

\* query_with_context up to its call of query_document
ContextCheckGreeting ==
    /\ llm_pc = "context_start"
    /\ IF is_greeting(llm_in.question)
       THEN /\ LlmReturn(Ok(get_greeting_response))
            /\ UNCHANGED llm_doc
       ELSE /\ llm_doc' = FullContent(llm_in.context, llm_in.document_content)
            /\ llm_pc' = "start"
            /\ UNCHANGED llm_out
    /\ UNCHANGED <<llm_in, llm_payload, llm_requests>>
    /\ UNCHANGED otherThanLlm

QueryCheckGreetingAfterKey ==
    /\ llm_pc = "start"
    /\ IF llm_in.api_key = <<>>
       THEN LlmReturn(Raise(<<"O", "p", "e", "n", "R", "o", "u", "t", "e", "r", " ", "A", "P", "I", " ", "k", "e", "y", " ", "n", "o", "t", " ", "c", "o", "n", "f", "i", "g", "u", "r", "e", "d">>))
       ELSE IF is_greeting(llm_in.question)
            THEN LlmReturn(Ok(get_greeting_response))
            ELSE llm_pc' = "check_key" /\ UNCHANGED llm_out
    /\ UNCHANGED <<llm_in, llm_doc, llm_payload, llm_requests>>
    /\ UNCHANGED otherThanLlm

\* query_document: if self.is_greeting(question)
QueryCheckGreeting ==
    /\ llm_pc = "start"
    /\ IF is_greeting(llm_in.question)
       THEN LlmReturn(Ok(get_greeting_response))
       ELSE llm_pc' = "check_key" /\ UNCHANGED llm_out
    /\ UNCHANGED <<llm_in, llm_doc, llm_payload, llm_requests>>
    /\ UNCHANGED otherThanLlm

QueryCheckKeyOmitted ==
    /\ llm_pc = "check_key"
    /\ llm_payload' = BuildPayload(llm_doc, llm_in.question, llm_in.temperature,
                                   llm_in.api_key)
    /\ llm_pc' = "post"
    /\ UNCHANGED <<llm_in, llm_doc, llm_requests, llm_out>>
    /\ UNCHANGED otherThanLlm

\* query_document: if not self.api_key, then prompt, headers and payload
QueryCheckKey ==
    /\ llm_pc = "check_key"
    /\ IF llm_in.api_key = <<>>
       THEN /\ LlmReturn(Raise(<<"O", "p", "e", "n", "R", "o", "u", "t", "e", "r", " ", "A", "P", "I", " ", "k", "e", "y", " ", "n", "o", "t", " ", "c", "o", "n", "f", "i", "g", "u", "r", "e", "d">>))
            /\ UNCHANGED llm_payload
       ELSE /\ llm_payload' = BuildPayload(llm_doc, llm_in.question,
                                           llm_in.temperature, llm_in.api_key)
            /\ llm_pc' = "post"
            /\ UNCHANGED llm_out
    /\ UNCHANGED <<llm_in, llm_doc, llm_requests>>
    /\ UNCHANGED otherThanLlm

\* session.post(...): the request leaves
QueryPost ==
    /\ llm_pc = "post"
    /\ llm_requests' = llm_requests + 1
    /\ llm_pc' = "await"
    /\ UNCHANGED <<llm_in, llm_doc, llm_payload, llm_out>>
    /\ UNCHANGED otherThanLlm

\* what the try block makes of the remote's answer; every raise inside it
\* but aiohttp.ClientError is re-raised by the last except clause
QueryOutcome(remote) ==
    CASE remote.kind = "status" ->
           Raise(<<"E", "r", "r", "o", "r", " ", "q", "u", "e", "r", "y", "i", "n", "g", " ", "L", "L", "M", ":", " ">> \o <<"O", "p", "e", "n", "R", "o", "u", "t", "e", "r", " ", "A", "P", "I", " ", "e", "r", "r", "o", "r", ":", " ">> \o remote.body)
      [] remote.kind = "client_error" ->
           Raise(<<"E", "r", "r", "o", "r", " ", "c", "o", "m", "m", "u", "n", "i", "c", "a", "t", "i", "n", "g", " ", "w", "i", "t", "h", " ", "O", "p", "e", "n", "R", "o", "u", "t", "e", "r", " ", "A", "P", "I", ":", " ">> \o remote.body)
      [] remote.kind = "timeout" ->
           Raise(<<"E", "r", "r", "o", "r", " ", "q", "u", "e", "r", "y", "i", "n", "g", " ", "L", "L", "M", ":", " ">>)
      [] remote.kind = "malformed" ->
           Raise(<<"E", "r", "r", "o", "r", " ", "q", "u", "e", "r", "y", "i", "n", "g", " ", "L", "L", "M", ":", " ">> \o <<"'", "c", "h", "o", "i", "c", "e", "s", "'">>)
      [] remote.kind = "ok" ->
           LET cleaned == clean_response(remote.content)
           IN IF cleaned.ok THEN cleaned
              ELSE Raise(<<"E", "r", "r", "o", "r", " ", "q", "u", "e", "r", "y", "i", "n", "g", " ", "L", "L", "M", ":", " ">> \o cleaned.error)

QueryResponseRetrying ==
    /\ llm_pc = "await"
    /\ IF llm_in.remote.kind = "status" /\ llm_requests < 2
       THEN llm_pc' = "post" /\ UNCHANGED llm_out
       ELSE LlmReturn(QueryOutcome(llm_in.remote))
    /\ UNCHANGED <<llm_in, llm_doc, llm_payload, llm_requests>>
    /\ UNCHANGED otherThanLlm

\* the remote's answer, an error or the timeout arrives
QueryResponse ==
    /\ llm_pc = "await"
    /\ LlmReturn(QueryOutcome(llm_in.remote))
    /\ UNCHANGED <<llm_in, llm_doc, llm_payload, llm_requests>>
    /\ UNCHANGED otherThanLlm

LlmNext ==
    \/ ContextCheckGreeting
    \/ QueryCheckGreeting
    \/ QueryCheckKey
    \/ QueryPost
    \/ QueryResponse

\* the call as it starts
LlmStart(in) ==
    /\ llm_in = in
    /\ llm_pc = IF in.entry = "query_with_context" THEN "context_start" ELSE "start"
    /\ llm_doc = IF in.entry = "query_with_context" THEN <<>> ELSE in.document_content
    /\ llm_payload = NoPayload
    /\ llm_requests = 0
    /\ llm_out = NoOutcome

Remote(kind, body, content) == [ kind |-> kind, body |-> body, content |-> content ]

LlmCall(entry, question, document_content, context, temperature, api_key, remote) ==
    [ entry |-> entry, question |-> question, document_content |-> document_content,
      context |-> context, temperature |-> temperature, api_key |-> api_key,
      remote |-> remote ]

NoLlmCall == LlmCall("none", <<>>, <<>>, <<>>, 0, <<>>, Remote("none", <<>>, NullContent))

LlmIdle ==
    /\ llm_in = NoLlmCall
    /\ llm_pc = "idle"
    /\ llm_doc = <<>>
    /\ llm_payload = NoPayload
    /\ llm_requests = 0
    /\ llm_out = NoOutcome

-----------------------------------------------------------------------------
(* The calls of the answer service that are followed *)

EntryPoints == { "query_document", "query_with_context" }

ApiKeys == { <<>>, <<"s", "k", "-", "1">> }

\* the words generated questions are made of
QuestionWords == { <<"H", "i">>, <<"t", "h", "i", "s">>, <<"u", "p">> }

GeneratedQuestions ==
    { Join(ws, <<" ">>) : ws \in SeqsUpTo(QuestionWords, MaxWords) }

SampleQuestions ==
    { <<"h", "e", "l", "l", "o", " ", "t", "h", "e", "r", "e">>,
      <<" ", " ", "H", "E", "L", "L", "O", " ", " ">>,
      <<"w", "h", "a", "t", "'", "s", " ", "u", "p">>,
      <<"W", "h", "a", "t", "s", " ", TAB, " ", "u", "p", "?">>,
      <<"h", "o", "w", " ", "a", "r", "e", " ", "y", "o", "u">>,
      <<"g", "o", "o", "d", NL, "m", "o", "r", "n", "i", "n", "g">>,
      <<"g", "o", "o", "d", "m", "o", "r", "n", "i", "n", "g">>,
      <<"n", "i", "c", "e", " ", "t", "o", " ", "m", "e", "e", "t", " ", "y", "o", "u">>,
      <<"s", "a", "y", " ", "h", "i", "-", "f", "i">>,
      <<"h", "i", "g", "h">>,
      <<"h", "e", "l", "l", "o", " ", "c", "a", "n", " ", "y", "o", "u", " ", "s", "u", "m", "m", "a", "r", "i", "z", "e", " ", "t", "h", "e", " ", "r", "e", "p", "o", "r", "t">>,
      <<"W", "h", "a", "t", " ", "i", "s", " ", "t", "h", "e", " ", "t", "o", "t", "a", "l", " ", "r", "e", "v", "e", "n", "u", "e", "?">> }

PlainQuestions == { <<"h", "e", "l", "l", "o", " ", "t", "h", "e", "r", "e">>, <<"h", "o", "w", " ", "a", "r", "e", " ", "y", "o", "u", " ", "t", "o", "d", "a", "y", " ", "m", "y", " ", "f", "r", "i", "e", "n", "d">>,
                    <<"W", "h", "a", "t", " ", "i", "s", " ", "t", "h", "e", " ", "t", "o", "t", "a", "l", " ", "r", "e", "v", "e", "n", "u", "e", "?">>, <<"s", "u", "m", "m", "a", "r", "i", "z", "e", " ", "t", "h", "i", "s">> }

ShortDocs == { <<>>, <<"R", "e", "v", "e", "n", "u", "e", ":", " ", "$", "5", "M">> }

\* a text of n characters, each telling its position
TextOf(n, alphabet) == [ i \in 1..n |-> alphabet[(i % 26) + 1] ]

\* document lengths around both caps
LongDocs ==
    { TextOf(n, LowerAlpha) :
        n \in {0, 1} \cup ((PromptDocChars - MaxOver)..(PromptDocChars + MaxOver)) }

\* context lengths: none, short, and around the length at which context and
\* separator fill the prompt's cap, and a context longer than the cap
Contexts ==
    { TextOf(n, UpperAlpha) :
        n \in {0, 3, PromptDocChars + MaxOver}
              \cup ((PromptDocChars - Len(ContextSeparator) - MaxOver)
                    ..(PromptDocChars - Len(ContextSeparator) + 1)) }

OkRemote == Remote("ok", <<>>, StrContent(<<" ", " ", "R", "e", "v", "e", "n", "u", "e", " ", "w", "a", "s", " ", "\\", "n", "$", "5", "M", ".", " ", " ">>))

Remotes ==
    { OkRemote,
      Remote("ok", <<>>, StrContent(<<>>)),
      Remote("ok", <<>>, NullContent),
      Remote("status", <<"{", "\"", "e", "r", "r", "o", "r", "\"", ":", "\"", "r", "a", "t", "e", " ", "l", "i", "m", "i", "t", "e", "d", "\"", "}">>, NullContent),
      Remote("status", <<>>, NullContent),
      Remote("client_error", <<"C", "a", "n", "n", "o", "t", " ", "c", "o", "n", "n", "e", "c", "t", " ", "t", "o", " ", "h", "o", "s", "t">>, NullContent),
      Remote("timeout", <<>>, NullContent),
      Remote("malformed", <<>>, NullContent) }

Temperatures == { 0, 7 }    \* in tenths

LlmInit ==
    \E entry \in EntryPoints, question \in PlainQuestions, doc \in ShortDocs,
       context \in { <<>>, <<"Q", "3">> }, temperature \in Temperatures,
       api_key \in ApiKeys, remote \in Remotes :
        LlmStart(LlmCall(entry, question, doc, context, temperature, api_key, remote))

GreetInit ==
    \E entry \in EntryPoints, question \in GeneratedQuestions \cup SampleQuestions,
       doc \in ShortDocs, api_key \in ApiKeys :
        LlmStart(LlmCall(entry, question, doc, <<>>, 7, api_key, OkRemote))

CapInit ==
    \E entry \in EntryPoints, question \in { <<"h", "e", "l", "l", "o", " ", "t", "h", "e", "r", "e">>, <<"s", "u", "m", "m", "a", "r", "i", "z", "e", " ", "t", "h", "i", "s">> },
       doc \in LongDocs, context \in Contexts :
        LlmStart(LlmCall(entry, question, doc,
                         IF entry = "query_with_context" THEN context ELSE <<>>,
                         7, <<"s", "k", "-", "1">>, OkRemote))

\* the characters generated raw responses are made of
RawAlphabet == { BACKSLASH, "n", "x", "4", " ", NL }

SampleResponses ==
    { <<" ", " ", "R", "e", "v", "e", "n", "u", "e", " ", "w", "a", "s", " ", "\\", "n", "$", "5", "M", ".", " ", " ">>,
      <<"\\", "x", "4", "1", "\\", "u", "0", "0", "e", "9", "\\", "t", "d", "o", "n", "e">>,
      <<BACKTICK, BACKTICK, BACKTICK>> \o <<"j", "s", "o", "n", NL, "{", "\"", "a", "\"", ":", " ", "1", "}", NL>> \o <<BACKTICK, BACKTICK, BACKTICK>>,
      <<"<", "p", ">", "T", "o", "t", "a", "l", ":", " ", " ", "5", "<", "/", "p", ">", NL, NL, NL, NL, " ", " ", "n", "e", "x", "t", " ", TAB, " ", "l", "i", "n", "e", " ", CR, NL>>,
      <<"ZWSP", "a", "BEL", FF, "b">> }

GeneratedContents == { StrContent(raw) : raw \in SeqsUpTo(RawAlphabet, MaxRawLen) }

SampleContents == { StrContent(raw) : raw \in SampleResponses } \cup { NullContent }

CleanCall(entry, content) ==
    LlmCall(entry, <<"W", "h", "a", "t", "?">>, <<"R", "e", "v", "e", "n", "u", "e">>,
            <<>>, 7, <<"s", "k", "-", "1">>, Remote("ok", <<>>, content))

CleanInit ==
    \/ \E content \in GeneratedContents : LlmStart(CleanCall("query_document", content))
    \/ \E entry \in EntryPoints, content \in SampleContents :
           LlmStart(CleanCall(entry, content))

-----------------------------------------------------------------------------
(* main.py: the request handlers.  The handlers are coroutines of one      *)
(* event loop: a handler gives way to another only at an await, and the    *)
(* slot in "running" is the handler inside a stretch without await.  The   *)
(* process can be killed between any two steps; what is on disk stays.     *)
(* A file is written or removed in one step.                               *)

MAX_FILE_SIZE == 52428800

ALLOWED_EXTENSIONS ==
    { <<".", "p", "d", "f">>, <<".", "t", "x", "t">>, <<".", "d", "o", "c", "x">>, <<".", "x", "l", "s", "x">>, <<".", "z", "i", "p">> }

\* os.path.splitext(filename)[1]: from the last dot of the last path
\* component, unless only dots precede it there
splitext_ext(filename) ==
    LET sepIndex == LastIndexOf(filename, "/")
        dotIndex == LastIndexOf(filename, ".")
    IN IF /\ dotIndex > sepIndex
          /\ \E k \in (sepIndex + 1)..(dotIndex - 1) : filename[k] # "."
       THEN SubSeq(filename, dotIndex, Len(filename))
       ELSE <<>>

get_file_extension(filename) == Lower(splitext_ext(filename))

is_allowed_file(filename) == get_file_extension(filename) \in ALLOWED_EXTENSIONS

\* generate_document_id: uuid4 returns an id it has not returned before.
\* Ids are interchangeable, so the least unused one stands for it.
generate_document_id(used) ==
    { id \in Ids \ used : \A other \in Ids \ used : id <= other }

\* datetime.now() as the handlers read it: the store's specification varies
\* the reading, the handlers' keeps the first
UploadTimes == { t \in Timestamps : \A other \in Timestamps : t <= other }

NoResponse ==
    [ status |-> 0, detail |-> <<>>, document_id |-> 0, filename |-> <<>>,
      answer |-> <<>>, documents |-> <<>>, total |-> 0 ]

\* raise HTTPException(status_code, detail)
HTTPException(status_code, detail) ==
    [ NoResponse EXCEPT !.status = status_code, !.detail = detail ]

NoFrame ==
    [ op |-> "none", pc |-> "idle", id |-> 0, filename |-> <<>>,
      bytes |-> EmptyBytes, result |-> <<>>, question |-> <<>> ]

NothingSent == [ op |-> "none", id |-> 0, resp |-> NoResponse ]

Slots == 1..NumSlots

\* the handler of slot r ends with response resp
Respond(r, op, id, resp) ==
    /\ reqs' = [ reqs EXCEPT ![r] = NoFrame ]
    /\ sent' = [ op |-> op, id |-> id, resp |-> resp ]

\* the handler of slot r goes on
Proceed(r, frame) ==
    /\ reqs' = [ reqs EXCEPT ![r] = frame ]
    /\ UNCHANGED sent

\* the event loop is free: no handler is inside a stretch without await.
\* The answer service awaits only between its request and the response.
LoopFree == running = 0 /\ llm_pc \in { "idle", "await" }

\* a request is taken up when the event loop is free; it gets the first
\* free slot
Accepts(r) ==
    /\ LoopFree
    /\ reqs[r].pc = "idle"
    /\ \A q \in 1..(r - 1) : reqs[q].pc # "idle"
    /\ received < MaxRequests

ApiIdle ==
    /\ reqs = [ r \in Slots |-> NoFrame ]
    /\ sent = NothingSent
    /\ running = 0
    /\ issued = {}
    /\ received = 0
    /\ crashes = 0

\* the handler's frame while it runs
Frame(op, pc, id, filename, bytes, result, question) ==
    [ op |-> op, pc |-> pc, id |-> id, filename |-> filename, bytes |-> bytes,
      result |-> result, question |-> question ]

\* upload_document up to its await: the checks of the filename
UploadValidate(r, file) ==
    /\ Accepts(r)
    /\ received' = received + 1
    /\ IF file.filename = <<>>
       THEN Respond(r, "upload", 0, HTTPException(400, <<"N", "o", " ", "f", "i", "l", "e", " ", "p", "r", "o", "v", "i", "d", "e", "d">>))
       ELSE IF ~is_allowed_file(file.filename)
       \* the detail goes on with the allowed extensions in the set's order
       THEN Respond(r, "upload", 0, HTTPException(400, <<"F", "i", "l", "e", " ", "t", "y", "p", "e", " ", "n", "o", "t", " ", "a", "l", "l", "o", "w", "e", "d", ".", " ", "A", "l", "l", "o", "w", "e", "d", ":", " ">>))
       ELSE Proceed(r, Frame("upload", "read", 0, file.filename, file.bytes, <<>>, <<>>))
    /\ UNCHANGED <<files, running, issued, crashes>>
    /\ UNCHANGED llmVars
    /\ UNCHANGED otherThanApi

\* upload_document with the metadata written before the extraction
UploadProcessSavingFirst(r) ==
    /\ LoopFree
    /\ reqs[r].pc = "read"
    /\ reqs[r].bytes.size <= MAX_FILE_SIZE
    /\ \E document_id \in generate_document_id(issued) :
         LET result == process_document(reqs[r].bytes,
                                        get_file_extension(reqs[r].filename))
         IN /\ issued' = issued \cup { document_id }
            /\ files' = save_document_metadata(files, document_id, reqs[r].filename,
                                               reqs[r].bytes.size, 1)
            /\ IF ~result.ok
               THEN /\ Respond(r, "upload", document_id,
                               HTTPException(500, <<"U", "p", "l", "o", "a", "d", " ", "f", "a", "i", "l", "e", "d", ":", " ">> \o result.error))
                    /\ UNCHANGED running
               ELSE /\ Proceed(r, Frame("upload", "save_content", document_id,
                                        reqs[r].filename, reqs[r].bytes,
                                        result.value, <<>>))
                    /\ running' = r
    /\ UNCHANGED <<received, crashes>>
    /\ UNCHANGED llmVars
    /\ UNCHANGED otherThanApi

\* upload_document from file.read() to process_document: the size check,
\* the new id and the extraction
UploadProcess(r) ==
    /\ LoopFree
    /\ reqs[r].pc = "read"
    /\ LET file_size == reqs[r].bytes.size
           file_extension == get_file_extension(reqs[r].filename)
           result == process_document(reqs[r].bytes, file_extension)
       IN IF file_size > MAX_FILE_SIZE
          THEN /\ Respond(r, "upload", 0, HTTPException(413, <<"F", "i", "l", "e", " ", "t", "o", "o", " ", "l", "a", "r", "g", "e", ".", " ", "M", "a", "x", " ", "s", "i", "z", "e", ":", " ", "5", "0", ".", "0", "M", "B">>))
               /\ UNCHANGED <<issued, running>>
          ELSE \E document_id \in generate_document_id(issued) :
                 /\ issued' = issued \cup { document_id }
                 /\ IF ~result.ok
                    THEN /\ Respond(r, "upload", document_id,
                                    HTTPException(500, <<"U", "p", "l", "o", "a", "d", " ", "f", "a", "i", "l", "e", "d", ":", " ">> \o result.error))
                         /\ UNCHANGED running
                    ELSE /\ Proceed(r, Frame("upload", "save_metadata", document_id, reqs[r].filename, reqs[r].bytes, result.value, <<>>))
                         /\ running' = r
    /\ UNCHANGED <<files, received, crashes>>
    /\ UNCHANGED llmVars
    /\ UNCHANGED otherThanApi

\* upload_document: save_document_metadata(document_id, file.filename, file_size)
UploadSaveMetadata(r) ==
    /\ running = r
    /\ reqs[r].pc = "save_metadata"
    /\ \E now \in UploadTimes :
           files' = save_document_metadata(files, reqs[r].id, reqs[r].filename,
                                           reqs[r].bytes.size, now)
    /\ Proceed(r, [ reqs[r] EXCEPT !.pc = "save_content" ])
    /\ UNCHANGED <<running, issued, received, crashes>>
    /\ UNCHANGED llmVars
    /\ UNCHANGED otherThanApi

\* upload_document: save_document_content(document_id, result) and the return
UploadSaveContent(r) ==
    /\ running = r
    /\ reqs[r].pc = "save_content"
    /\ files' = save_document_content(files, reqs[r].id, reqs[r].result)
    /\ Respond(r, "upload", reqs[r].id,
               [ NoResponse EXCEPT !.status = 200, !.document_id = reqs[r].id,
                                   !.filename = reqs[r].filename,
                                   !.detail = <<"s", "u", "c", "c", "e", "s", "s">> ])
    /\ running' = 0
    /\ UNCHANGED <<issued, received, crashes>>
    /\ UNCHANGED llmVars
    /\ UNCHANGED otherThanApi

\* delete_doc gated on either record of the id
DeleteLoadAnyRecord(r, document_id) ==
    /\ Accepts(r)
    /\ received' = received + 1
    /\ LET metadata == load_document_metadata(files, document_id)
       IN IF ~HasRecords(files, document_id)
          THEN /\ Respond(r, "delete", document_id,
                          HTTPException(404, <<"D", "o", "c", "u", "m", "e", "n", "t", " ", "n", "o", "t", " ", "f", "o", "u", "n", "d">>))
               /\ UNCHANGED running
          ELSE /\ Proceed(r, Frame("delete", "remove_metadata", document_id,
                                   IF metadata.found
                                   THEN DictGet(metadata.value, "filename") ELSE <<>>,
                                   EmptyBytes, <<>>, <<>>))
               /\ running' = r
    /\ UNCHANGED <<files, issued, crashes>>
    /\ UNCHANGED llmVars
    /\ UNCHANGED otherThanApi

\* delete_doc up to delete_document: the load of the metadata and the 404
DeleteLoad(r, document_id) ==
    /\ Accepts(r)
    /\ received' = received + 1
    /\ LET metadata == load_document_metadata(files, document_id)
       IN IF ~metadata.found \/ metadata.value = <<>>
          THEN /\ Respond(r, "delete", document_id,
                          HTTPException(404, <<"D", "o", "c", "u", "m", "e", "n", "t", " ", "n", "o", "t", " ", "f", "o", "u", "n", "d">>))
               /\ UNCHANGED running
          ELSE /\ Proceed(r, Frame("delete", "remove_metadata", document_id, DictGet(metadata.value, "filename"), EmptyBytes, <<>>, <<>>))
               /\ running' = r
    /\ UNCHANGED <<files, issued, crashes>>
    /\ UNCHANGED llmVars
    /\ UNCHANGED otherThanApi

\* delete_document, first half: the metadata file
DeleteRemoveMetadata(r) ==
    /\ running = r
    /\ reqs[r].pc = "remove_metadata"
    /\ LET out == delete_metadata_file(files, reqs[r].id)
       IN /\ files' = out.fs
          /\ IF out.exc # "none"
             THEN /\ Respond(r, "delete", reqs[r].id,
                             HTTPException(500, <<"D", "e", "l", "e", "t", "e", " ", "f", "a", "i", "l", "e", "d", ":", " ">>))
                  /\ running' = 0
             ELSE /\ Proceed(r, [ reqs[r] EXCEPT !.pc = "remove_content" ])
                  /\ UNCHANGED running
    /\ UNCHANGED <<issued, received, crashes>>
    /\ UNCHANGED llmVars
    /\ UNCHANGED otherThanApi

\* delete_document, second half: the content file, and delete_doc's return
DeleteRemoveContent(r) ==
    /\ running = r
    /\ reqs[r].pc = "remove_content"
    /\ LET out == delete_content_file(files, reqs[r].id)
       IN /\ files' = out.fs
          /\ IF out.exc # "none"
             THEN Respond(r, "delete", reqs[r].id, HTTPException(500, <<"D", "e", "l", "e", "t", "e", " ", "f", "a", "i", "l", "e", "d", ":", " ">>))
             ELSE Respond(r, "delete", reqs[r].id,
                          [ NoResponse EXCEPT !.status = 200,
                                              !.detail = <<"D", "o", "c", "u", "m", "e", "n", "t", " ", "d", "e", "l", "e", "t", "e", "d", " ", "s", "u", "c", "c", "e", "s", "s", "f", "u", "l", "l", "y">>,
                                              !.document_id = reqs[r].id,
                                              !.filename = reqs[r].filename ])
    /\ running' = 0
    /\ UNCHANGED <<issued, received, crashes>>
    /\ UNCHANGED llmVars
    /\ UNCHANGED otherThanApi

\* query_document of main.py: the text handed to the answer service
DocumentText(content_data) ==
    IF DictGet(content_data, "format") = "zip"
    THEN LET items == DictGet(content_data, "content")
         IN Join([ i \in 1..Len(items) |->
                     <<"-", "-", "-", " ">> \o items[i][1] \o <<" ", "-", "-", "-", NL>> \o items[i][2] ],
                 <<NL, NL>>)
    ELSE DictGet(content_data, "content")

\* llm_handler.query_document is entered
LlmEnter(in) ==
    /\ llm_pc = "idle"
    /\ llm_in' = in
    /\ llm_pc' = "start"
    /\ llm_doc' = in.document_content
    /\ llm_payload' = NoPayload
    /\ llm_requests' = 0
    /\ llm_out' = NoOutcome

\* the call of the answer service is over
LlmLeave ==
    /\ llm_in' = NoLlmCall
    /\ llm_pc' = "idle"
    /\ llm_doc' = <<>>
    /\ llm_payload' = NoPayload
    /\ llm_requests' = 0
    /\ llm_out' = NoOutcome

\* query_document of main.py up to its await: the load of the content, the
\* 404, the 400 and the call of the answer service
QueryLoad(r, document_id, question, api_key, remote) ==
    /\ Accepts(r)
    /\ received' = received + 1
    /\ LET content_data == load_document_content(files, document_id)
       IN IF ~content_data.found \/ content_data.value = <<>>
          THEN /\ Respond(r, "query", document_id,
                          HTTPException(404, <<"D", "o", "c", "u", "m", "e", "n", "t", " ", "n", "o", "t", " ", "f", "o", "u", "n", "d">>))
               /\ UNCHANGED llmVars
          ELSE IF DocumentText(content_data.value) = <<>>
          THEN /\ Respond(r, "query", document_id,
                          HTTPException(400, <<"D", "o", "c", "u", "m", "e", "n", "t", " ", "h", "a", "s", " ", "n", "o", " ", "e", "x", "t", "r", "a", "c", "t", "a", "b", "l", "e", " ", "c", "o", "n", "t", "e", "n", "t">>))
               /\ UNCHANGED llmVars
          ELSE /\ Proceed(r, Frame("query", "llm", document_id, <<>>, EmptyBytes, <<>>, question))
               /\ LlmEnter(LlmCall("query_document", question,
                                   DocumentText(content_data.value), <<>>, 7,
                                   api_key, remote))
    /\ UNCHANGED <<files, running, issued, crashes>>
    /\ UNCHANGED otherThanApi

\* query_document of main.py after its await: the answer or the 500
QueryAnswer(r) ==
    /\ running = 0
    /\ reqs[r].pc = "llm"
    /\ llm_pc = "done"
    /\ IF llm_out.ok
       THEN Respond(r, "query", reqs[r].id,
                    [ NoResponse EXCEPT !.status = 200, !.document_id = reqs[r].id,
                                        !.answer = llm_out.value ])
       ELSE Respond(r, "query", reqs[r].id,
                    HTTPException(500, <<"Q", "u", "e", "r", "y", " ", "f", "a", "i", "l", "e", "d", ":", " ">> \o llm_out.error))
    /\ LlmLeave
    /\ UNCHANGED <<files, running, issued, received, crashes>>
    /\ UNCHANGED otherThanApi

\* list_documents
ListDocuments(r) ==
    /\ Accepts(r)
    /\ received' = received + 1
    /\ \E order \in os_listdir(files) :
         LET documents == list_all_documents(files, order)
         IN Respond(r, "list", 0,
                    [ NoResponse EXCEPT !.status = 200, !.documents = documents,
                                        !.total = Len(documents) ])
    /\ UNCHANGED <<files, running, issued, crashes>>
    /\ UNCHANGED llmVars
    /\ UNCHANGED otherThanApi

\* the server process is killed and started again: the handlers under way
\* are gone with their responses, the files stay
Crash ==
    /\ crashes < MaxCrashes
    /\ crashes' = crashes + 1
    /\ reqs' = [ r \in Slots |-> NoFrame ]
    /\ UNCHANGED sent
    /\ running' = 0
    /\ LlmLeave
    /\ UNCHANGED <<files, issued, received>>
    /\ UNCHANGED otherThanApi

\* the uploads clients send: (filename, bytes)
UploadFile(filename, bytes) == [ filename |-> filename, bytes |-> bytes ]

UploadFiles ==
    { UploadFile(<<>>, TxtBytes),
      UploadFile(<<"a", ".", "t", "x", "t">>, TxtBytes),
      UploadFile(<<"n", ".", "e", "x", "e">>, TxtBytes),
      UploadFile(<<"b", "i", "g", ".", "t", "x", "t">>, [ TxtBytes EXCEPT !.size = MAX_FILE_SIZE + 1 ]),
      UploadFile(<<"d", ".", "P", "D", "F">>, TxtBytes),
      UploadFile(<<"e", ".", "t", "x", "t">>, EmptyBytes),
      UploadFile(<<"c", ".", "z", "i", "p">>,
                 Bytes("zip", FALSE, <<"P", "K">>, NoBody,
                       << Entry(<<"a", ".", "t", "x", "t">>, TxtBytes, TRUE),
                          Entry(<<"b", ".", "p", "d", "f">>, PdfBytes, TRUE) >>, 24)) }

\* the queries clients send, each with what the remote endpoint will answer
ApiQueries ==
    { [ question |-> <<"H", "i">>, remote |-> OkRemote ],
      [ question |-> <<"W", "h", "a", "t", "?">>, remote |-> OkRemote ],
      [ question |-> <<"W", "h", "a", "t", "?">>, remote |-> Remote("status", <<"b", "u", "s", "y">>, NullContent) ] }

ApiNext ==
    \/ \E r \in Slots, file \in UploadFiles : UploadValidate(r, file)
    \/ \E r \in Slots : UploadProcess(r)
    \/ \E r \in Slots : UploadSaveMetadata(r)
    \/ \E r \in Slots : UploadSaveContent(r)
    \/ \E r \in Slots, id \in Ids : DeleteLoad(r, id)
    \/ \E r \in Slots : DeleteRemoveMetadata(r)
    \/ \E r \in Slots : DeleteRemoveContent(r)
    \/ \E r \in Slots, id \in Ids, q \in ApiQueries :
           QueryLoad(r, id, q.question, <<"s", "k", "-", "1">>, q.remote)
    \/ \E r \in Slots : QueryAnswer(r)
    \/ \E r \in Slots : ListDocuments(r)
    \/ QueryCheckGreeting
    \/ QueryCheckKey
    \/ QueryPost
    \/ QueryResponse
    \/ Crash

ApiInit == StoreIdle /\ DocIdle /\ LlmIdle /\ ApiIdle

-----------------------------------------------------------------------------
(* Specifications *)

InitStore == StoreInit /\ DocIdle /\ LlmIdle /\ ApiIdle

SpecStore == InitStore /\ [][StoreNext]_vars

InitDoc == DocInit /\ StoreIdle /\ LlmIdle /\ ApiIdle

SpecDoc == InitDoc /\ [][DocNext]_vars

InitLLM == LlmInit /\ StoreIdle /\ DocIdle /\ ApiIdle

SpecLLM == InitLLM /\ [][LlmNext]_vars

InitGreet == GreetInit /\ StoreIdle /\ DocIdle /\ ApiIdle

SpecGreet == InitGreet /\ [][LlmNext]_vars

InitCap == CapInit /\ StoreIdle /\ DocIdle /\ ApiIdle

SpecCap == InitCap /\ [][LlmNext]_vars

InitClean == CleanInit /\ StoreIdle /\ DocIdle /\ ApiIdle

SpecClean == InitClean /\ [][LlmNext]_vars

Spec == ApiInit /\ [][ApiNext]_vars

-----------------------------------------------------------------------------
(* Claims *)

\* the ids whose metadata the completed calls created and did not delete
LiveIds == { id \in Ids : saved[id].meta = "live" }

(* C1: after save_document_metadata and save_document_content the loads     *)
(* return what was saved (id, filename, size; the content exactly), after   *)
(* delete_document both loads return None, and no call raises: a delete of  *)
(* an id without records included, which leaves every other id as it was.   *)
StoreLifecycle ==
    /\ call.exc = "none"
    /\ \A id \in Ids :
        LET md == load_document_metadata(files, id)
            ct == load_document_content(files, id)
        IN /\ IF saved[id].meta = "live"
              THEN /\ md.found
                   /\ DictGet(md.value, "document_id") = id
                   /\ DictGet(md.value, "filename") = saved[id].filename
                   /\ DictGet(md.value, "file_size") = saved[id].size
                   /\ DictGet(md.value, "upload_date") = saved[id].date
              ELSE md = None
           /\ IF saved[id].content = "live"
              THEN ct.found /\ ct.value = saved[id].value
              ELSE ct = None

\* a delete of an id that had no record, beside an id with both records
StoreLifecycleWitness ==
    /\ call.op = "delete" /\ ~call.had
    /\ \E other \in Ids \ {call.id} :
          /\ saved[other].meta = "live" /\ saved[other].content = "live"
          /\ load_document_content(files, other).found
    /\ \E gone \in Ids : saved[gone].meta = "deleted" /\ saved[gone].content = "deleted"

(* C2: list_all_documents returns exactly one metadata record per id that   *)
(* was created and not since deleted: as many records as live ids, their    *)
(* ids the live ids, none twice and none of a deleted id.                   *)
ListMatchesLive ==
    listing.valid =>
        /\ Len(listing.documents) = Cardinality(LiveIds)
        /\ \A i \in 1..Len(listing.documents) :
              DictHas(listing.documents[i], "document_id")
        /\ { DictGet(listing.documents[i], "document_id") :
               i \in 1..Len(listing.documents) } = LiveIds
        /\ \A i \in 1..Len(listing.documents) :
              Found(listing.documents[i]) =
                  load_document_metadata(files, DictGet(listing.documents[i], "document_id"))

\* a listing of N >= 1 live documents with content files beside them, after a delete
ListMatchesLiveWitness ==
    /\ listing.valid
    /\ Len(listing.documents) = NumIds - 1
    /\ Len(listing.documents) >= 1
    /\ \E id \in Ids : saved[id].meta = "deleted"
    /\ \E id \in LiveIds : saved[id].content = "live"

\* the entries of the archive that are not directories, in archive order
FileEntries(file_bytes) ==
    SelectSeq(ZipFileList(file_bytes), LAMBDA e : ~EndsWith(e.filename, <<"/">>))

ZipSupported == { <<"p", "d", "f">>, <<"t", "x", "t">>, <<"d", "o", "c", "x">>,
                  <<"x", "l", "s", "x">> }

\* s.startswith(prefix)
StartsWith(s, prefix) ==
    Len(s) >= Len(prefix) /\ SubSeq(s, 1, Len(prefix)) = prefix

IsErrorPlaceholder(text) ==
    /\ StartsWith(text, <<"[", "E", "r", "r", "o", "r", " ", "p", "r", "o", "c", "e", "s", "s", "i", "n", "g", " ", "f", "i", "l", "e", ":", " ">>)
    /\ text[Len(text)] = "]"

\* what the claim promises for one entry
EntryAsPromised(e, text) ==
    LET ext == ZipEntryExt(e.filename)
        extracted == IF ext = <<"p", "d", "f">> THEN process_pdf(e.data)
                     ELSE IF ext = <<"t", "x", "t">> THEN process_txt(e.data)
                     ELSE IF ext = <<"d", "o", "c", "x">> THEN process_docx(e.data)
                     ELSE process_xlsx(e.data)
    IN IF ~e.readable THEN IsErrorPlaceholder(text)
       ELSE IF ext \notin ZipSupported
            THEN text = <<"[", "U", "n", "s", "u", "p", "p", "o", "r", "t", "e", "d", " ", "f", "i", "l", "e", " ", "t", "y", "p", "e", ":", " ", ".">> \o ext \o <<"]">>
       ELSE IF extracted.ok THEN text = extracted.value
       ELSE IsErrorPlaceholder(text)

(* C4: for every archive that opens, process_zip returns a mapping with one *)
(* key per non-directory entry in archive order; a supported entry maps to  *)
(* its extracted text, another extension to the unsupported placeholder, an *)
(* entry whose processing fails to the error placeholder, and the archive   *)
(* as a whole does not fail.                                                *)
ZipPerEntryIsolation ==
    (doc_pc = "done" /\ doc_in.fn = "process_zip" /\ ZipOpens(doc_in.bytes)) =>
        LET entries == FileEntries(doc_in.bytes)
        IN /\ doc_out.ok
           /\ DictKeys(doc_out.value) = [ i \in 1..Len(entries) |-> entries[i].filename ]
           /\ \A i \in 1..Len(entries) :
                 EntryAsPromised(entries[i], doc_out.value[i][2])

\* the archives in which every entry decompresses and no name occurs twice
ZipWellFormed(file_bytes) ==
    LET entries == FileEntries(file_bytes)
    IN /\ \A i \in 1..Len(entries) : entries[i].readable
       /\ \A i, j \in 1..Len(entries) :
             entries[i].filename = entries[j].filename => i = j

\* C4 holds of those archives
ZipPerEntryIsolationWellFormed ==
    (doc_pc = "done" /\ doc_in.fn = "process_zip" /\ ZipOpens(doc_in.bytes)
       /\ ZipWellFormed(doc_in.bytes)) =>
        LET entries == FileEntries(doc_in.bytes)
        IN /\ doc_out.ok
           /\ DictKeys(doc_out.value) = [ i \in 1..Len(entries) |-> entries[i].filename ]
           /\ \A i \in 1..Len(entries) :
                 EntryAsPromised(entries[i], doc_out.value[i][2])

DispatchSupported ==
    { <<".", "p", "d", "f">>, <<".", "t", "x", "t">>, <<".", "d", "o", "c", "x">>,
      <<".", "x", "l", "s", "x">>, <<".", "z", "i", "p">> }

\* the format tag that is the extension without its dot
FormatOf(ext) ==
    CASE ext = <<".", "p", "d", "f">> -> "pdf"
      [] ext = <<".", "t", "x", "t">> -> "txt"
      [] ext = <<".", "d", "o", "c", "x">> -> "docx"
      [] ext = <<".", "x", "l", "s", "x">> -> "xlsx"
      [] ext = <<".", "z", "i", "p">> -> "zip"

ExtractionErrorOf(ext) ==
    CASE ext = <<".", "p", "d", "f">> -> <<"E", "r", "r", "o", "r", " ", "p", "r", "o", "c", "e", "s", "s", "i", "n", "g", " ", "P", "D", "F", ":", " ">>
      [] ext = <<".", "t", "x", "t">> -> <<"E", "r", "r", "o", "r", " ", "d", "e", "c", "o", "d", "i", "n", "g", " ", "t", "e", "x", "t", " ", "f", "i", "l", "e", ":", " ">>
      [] ext = <<".", "d", "o", "c", "x">> -> <<"E", "r", "r", "o", "r", " ", "p", "r", "o", "c", "e", "s", "s", "i", "n", "g", " ", "D", "O", "C", "X", ":", " ">>
      [] ext = <<".", "x", "l", "s", "x">> -> <<"E", "r", "r", "o", "r", " ", "p", "r", "o", "c", "e", "s", "s", "i", "n", "g", " ", "X", "L", "S", "X", ":", " ">>
      [] ext = <<".", "z", "i", "p">> -> <<"E", "r", "r", "o", "r", " ", "p", "r", "o", "c", "e", "s", "s", "i", "n", "g", " ", "Z", "I", "P", ":", " ">>

\* a string: a sequence of characters and literal fragments
IsText(v) == v \in Seq(STRING)

\* a mapping of path to string
IsMapping(v) ==
    \A i \in 1..Len(v) : Len(v[i]) = 2 /\ IsText(v[i][1]) /\ IsText(v[i][2])

(* C5: process_document with an extension in {.pdf, .txt, .docx, .xlsx,     *)
(* .zip} returns {format, content} with format the extension without its    *)
(* dot and content a string (a path-to-string mapping for zip), or fails    *)
(* with that format's extraction error; with any other extension it fails   *)
(* with the unsupported-format error and returns nothing.                   *)
DispatchContract ==
    (doc_pc = "done" /\ doc_in.fn = "process_document") =>
        IF doc_in.ext \in DispatchSupported
        THEN \/ /\ doc_out.ok
                /\ DictKeys(doc_out.value) = <<"content", "format">>
                /\ DictGet(doc_out.value, "format") = FormatOf(doc_in.ext)
                /\ IF doc_in.ext = <<".", "z", "i", "p">>
                   THEN IsMapping(DictGet(doc_out.value, "content"))
                   ELSE IsText(DictGet(doc_out.value, "content"))
             \/ /\ ~doc_out.ok
                /\ StartsWith(doc_out.error, ExtractionErrorOf(doc_in.ext))
        ELSE /\ ~doc_out.ok
             /\ doc_out.error = <<"U", "n", "s", "u", "p", "p", "o", "r", "t", "e", "d", " ", "f", "i", "l", "e", " ", "f", "o", "r", "m", "a", "t", ":", " ">> \o doc_in.ext

\* a ZIP upload dispatched to a two-entry mapping
DispatchContractWitness ==
    /\ doc_pc = "done" /\ doc_in.fn = "process_document"
    /\ doc_in.ext = <<".", "z", "i", "p">>
    /\ doc_out.ok
    /\ Len(DictGet(doc_out.value, "content")) = 2

\* the question, lower-cased and trimmed, has at most 5 words and matches
\* one of the greeting patterns
QuestionIsGreeting(question) ==
    LET text == Strip(Lower(question))
    IN /\ WordCount(text) <= 5
       /\ \E p \in 1..Len(greeting_patterns) : re_search(greeting_patterns[p], text)

(* C3: whenever the question is a greeting, query_document and              *)
(* query_with_context return the canned greeting text and the call never    *)
(* issues (nor prepares) a remote completion request, whatever the document *)
(* and whether or not an API key is configured.                             *)
GreetingShortCircuit ==
    (llm_pc # "idle" /\ QuestionIsGreeting(llm_in.question)) =>
        /\ llm_requests = 0
        /\ ~llm_payload.built
        /\ llm_pc \in { "context_start", "start", "done" }
        /\ llm_pc = "done" => llm_out = Ok(get_greeting_response)

\* a five-word greeting answered through query_with_context with no key configured
GreetingShortCircuitWitness ==
    /\ llm_pc = "done"
    /\ llm_in.entry = "query_with_context"
    /\ llm_in.api_key = <<>>
    /\ WordCount(Strip(Lower(llm_in.question))) = 5
    /\ QuestionIsGreeting(llm_in.question)
    /\ llm_out = Ok(get_greeting_response)

\* the first n characters of s, all of s when it is shorter
FirstChars(s, n) == [ i \in 1..(IF Len(s) < n THEN Len(s) ELSE n) |-> s[i] ]

(* C6: in every request body built, the document section of the prompt is   *)
(* the first 8000 characters of the text handed to query_document; through  *)
(* query_with_context that text is context + "\n\nDocument Content:\n" +    *)
(* the first 8000 characters of the document; it never exceeds 8000         *)
(* characters, and every non-greeting call with a key builds the body.      *)
PromptCap ==
    /\ llm_payload.built =>
          /\ llm_payload.document =
                IF llm_in.entry = "query_document"
                THEN FirstChars(llm_in.document_content, 8000)
                ELSE FirstChars(llm_in.context \o ContextSeparator
                                   \o FirstChars(llm_in.document_content, 8000), 8000)
          /\ Len(llm_payload.document) <= 8000
    /\ llm_pc \in { "post", "await" } => llm_payload.built

\* a document and a combined text both over the cap, clipped to 8000
PromptCapWitness ==
    /\ llm_payload.built
    /\ llm_in.entry = "query_with_context"
    /\ Len(llm_in.document_content) > 8000
    /\ Len(llm_in.context) > 0
    /\ Len(llm_in.context) < 8000
    /\ Len(llm_payload.document) = 8000

(* C8: for a non-greeting question with no API key configured the call      *)
(* fails with the configuration error, and no remote completion request is  *)
(* issued before or after that failure.                                     *)
MissingCredential ==
    (llm_pc # "idle" /\ ~QuestionIsGreeting(llm_in.question) /\ llm_in.api_key = <<>>) =>
        /\ llm_requests = 0
        /\ llm_pc \notin { "post", "await" }
        /\ llm_pc = "done" =>
              /\ ~llm_out.ok
              /\ llm_out.error = <<"O", "p", "e", "n", "R", "o", "u", "t", "e", "r", " ", "A", "P", "I", " ", "k", "e", "y", " ", "n", "o", "t", " ", "c", "o", "n", "f", "i", "g", "u", "r", "e", "d">>

\* query_document itself failed for the missing key
MissingCredentialWitness ==
    /\ llm_pc = "done"
    /\ llm_in.entry = "query_document"
    /\ llm_in.api_key = <<>>
    /\ ~QuestionIsGreeting(llm_in.question)
    /\ ~llm_out.ok

(* C9: a non-greeting call with a key issues exactly one remote completion  *)
(* request; when it ends with a non-200 status, a network error or a        *)
(* timeout the call fails with an upstream error (with the response body    *)
(* for a non-200 status), returns no answer and issues no second request.   *)
SingleRequestNoRetry ==
    (llm_pc # "idle" /\ ~QuestionIsGreeting(llm_in.question) /\ llm_in.api_key # <<>>) =>
        /\ llm_requests <= 1
        /\ llm_pc \in { "await", "done" } => llm_requests = 1
        /\ llm_pc = "done" =>
              CASE llm_in.remote.kind = "status" ->
                     /\ ~llm_out.ok
                     /\ llm_out.error =
                          <<"E", "r", "r", "o", "r", " ", "q", "u", "e", "r", "y", "i", "n", "g", " ", "L", "L", "M", ":", " ", "O", "p", "e", "n", "R", "o", "u", "t", "e", "r", " ", "A", "P", "I", " ", "e", "r", "r", "o", "r", ":", " ">>
                          \o llm_in.remote.body
                [] llm_in.remote.kind = "client_error" ->
                     /\ ~llm_out.ok
                     /\ StartsWith(llm_out.error, <<"E", "r", "r", "o", "r", " ", "c", "o", "m", "m", "u", "n", "i", "c", "a", "t", "i", "n", "g", " ", "w", "i", "t", "h", " ", "O", "p", "e", "n", "R", "o", "u", "t", "e", "r", " ", "A", "P", "I", ":", " ">>)
                [] llm_in.remote.kind = "timeout" ->
                     /\ ~llm_out.ok
                     /\ StartsWith(llm_out.error, <<"E", "r", "r", "o", "r", " ", "q", "u", "e", "r", "y", "i", "n", "g", " ", "L", "L", "M", ":", " ">>)
                [] OTHER -> TRUE

\* a non-200 answer with a body ended the call after its one request
SingleRequestNoRetryWitness ==
    /\ llm_pc = "done"
    /\ ~QuestionIsGreeting(llm_in.question)
    /\ llm_in.api_key # <<>>
    /\ llm_in.remote.kind = "status"
    /\ llm_in.remote.body # <<>>
    /\ llm_requests = 1
    /\ ~llm_out.ok

\* a literal backslash-r, -n or -t, a backslash-x-HH or a backslash-u-HHHH
HasLiteralEscape(s) ==
    \E i \in 1..Len(s) :
        /\ s[i] = "\\"
        /\ \/ i + 1 <= Len(s) /\ s[i + 1] \in { "r", "n", "t" }
           \/ /\ i + 3 <= Len(s) /\ s[i + 1] = "x"
              /\ \A k \in (i + 2)..(i + 3) : s[k] \in HexDigits
           \/ /\ i + 5 <= Len(s) /\ s[i + 1] = "u"
              /\ \A k \in (i + 2)..(i + 5) : s[k] \in HexDigits

\* no leading or trailing whitespace and no run of three or more newlines
WhitespaceNormalized(s) ==
    /\ s # <<>> => ~IsSpace(s[1]) /\ ~IsSpace(s[Len(s)])
    /\ \A i \in 1..(Len(s) - 2) : ~(s[i] = NL /\ s[i + 1] = NL /\ s[i + 2] = NL)

(* C7: the text clean_response returns holds no literal backslash-r, -n or  *)
(* -t, no backslash-x-HH and no backslash-u-HHHH sequence, has no leading   *)
(* or trailing whitespace and no run of three or more newlines.             *)
ResponseSanitized ==
    (llm_pc = "done" /\ llm_in.remote.kind = "ok" /\ llm_in.remote.content.isstr) =>
        /\ llm_out.ok
        /\ llm_out.value = clean_response(llm_in.remote.content).value
        /\ ~HasLiteralEscape(llm_out.value)
        /\ WhitespaceNormalized(llm_out.value)

\* the whitespace half of C7 holds of every response
ResponseWhitespaceNormalized ==
    (llm_pc = "done" /\ llm_in.remote.kind = "ok" /\ llm_in.remote.content.isstr) =>
        /\ llm_out.ok
        /\ WhitespaceNormalized(llm_out.value)

\* the states another request can observe and the states a crash leaves:
\* no handler is inside a stretch without await
Observable == LoopFree

\* a content record exists for the id only if a metadata record does
ContentHasMetadata(id) ==
    os_path_exists(files, get_content_path(id)) =>
        os_path_exists(files, get_metadata_path(id))

(* C10: in every state another request can observe, and in every state     *)
(* left by a crash at any point inside upload or delete, a content record  *)
(* exists for an id only if a metadata record for that id exists.          *)
DeleteAtomic == Observable => \A id \in Ids : ContentHasMetadata(id)

\* as long as the process is not killed, C10's statement holds
DeleteAtomicWithoutCrash ==
    (Observable /\ crashes = 0) => \A id \in Ids : ContentHasMetadata(id)

\* a step in which upload_document ends with an error response: at the
\* checks of the filename, or between file.read() and the first store write
UploadFailureStep ==
    /\ crashes' = crashes
    /\ sent'.op = "upload"
    /\ sent'.resp.status # 200
    /\ \/ received' = received + 1 /\ reqs' = reqs
       \/ \E r \in Slots :
            reqs[r].op = "upload" /\ reqs[r].pc = "read" /\ reqs'[r] = NoFrame

(* C11: whenever upload_document fails because the filename is missing,    *)
(* the extension is not allowed, the size exceeds MAX_FILE_SIZE or the     *)
(* extraction raises, every record in the store is as it was before the    *)
(* request and the generated id, if one was generated, has no record.      *)
FailedUploadLeavesStore ==
    [][ UploadFailureStep =>
          /\ files' = files
          /\ sent'.resp.status \in { 400, 413, 500 }
          /\ sent'.id # 0 => ~HasRecords(files', sent'.id) ]_vars

\* an extraction failure answered 500, with an id generated for it, while
\* an earlier upload's two records are in the store
FailedUploadLeavesStoreWitness ==
    /\ sent.op = "upload"
    /\ sent.resp.status = 500
    /\ sent.id # 0
    /\ ~HasRecords(files, sent.id)
    /\ \E id \in Ids : /\ os_path_exists(files, get_metadata_path(id))
                       /\ os_path_exists(files, get_content_path(id))

\* the remote endpoint answered 200 with a message and the call is over
AnsweredCall ==
    llm_pc = "done" /\ llm_requests = 1 /\ llm_in.remote.kind = "ok"

(* C12: for every message content handed to clean_response, a non-string   *)
(* one such as null included, query_document returns an answer: a failing  *)
(* cleaning step yields the uncleaned-but-trimmed text, not a failed call. *)
CleaningFailureContained == AnsweredCall => llm_out.ok

\* for every str content the call returns what clean_response made of it
CleaningOfTextReturns ==
    (AnsweredCall /\ llm_in.remote.content.isstr) =>
        llm_out = Ok(CleanText(llm_in.remote.content.text))

\* the id has a metadata record and no content record
MetadataOnly(id) ==
    /\ os_path_exists(files, get_metadata_path(id))
    /\ ~os_path_exists(files, get_content_path(id))

\* what utils.py does for such an id: the content load reports not-found,
\* every listing holds the metadata record, a delete raises nothing and
\* leaves no record
MetadataOnlyCalls ==
    \A id \in Ids :
        MetadataOnly(id) =>
            /\ load_document_content(files, id) = None
            /\ \A order \in os_listdir(files) :
                 LET documents == list_all_documents(files, order)
                 IN \E i \in 1..Len(documents) :
                        documents[i] = load_document_metadata(files, id).value
            /\ delete_document(files, id).exc = "none"
            /\ ~HasRecords(delete_document(files, id).fs, id)

\* a response is sent in the step a request is received
AnsweredAtOnce(op) ==
    received' = received + 1 /\ reqs' = reqs /\ sent'.op = op

\* what the handlers do for such an id: a query ends 404 with the answer
\* service untouched, a listing shows the record, a delete is taken up; and
\* every delete that is carried through answers 200 with no record left
MetadataOnlyRequests ==
    /\ \A id \in Ids :
         MetadataOnly(id) =>
           /\ \A r \in Slots :
                (reqs[r].pc = "idle" /\ reqs'[r].op = "query") => reqs'[r].id # id
           /\ (AnsweredAtOnce("query") /\ sent'.id = id) =>
                /\ sent'.resp.status = 404
                /\ UNCHANGED llmVars
           /\ AnsweredAtOnce("list") =>
                \E i \in 1..Len(sent'.resp.documents) :
                    DictGet(sent'.resp.documents[i], "document_id") = id
           /\ ~(AnsweredAtOnce("delete") /\ sent'.id = id)
    /\ \A r \in Slots :
         (reqs[r].op = "delete" /\ reqs'[r] = NoFrame /\ crashes' = crashes) =>
           /\ sent'.op = "delete" /\ sent'.id = reqs[r].id
           /\ sent'.resp.status = 200
           /\ ~HasRecords(files', reqs[r].id)

(* C13: while an id has a metadata record and no content record (a crash   *)
(* between the two writes of an upload), load_document_content returns     *)
(* not-found without raising, a query for the id ends 404 and issues no    *)
(* remote request, list_all_documents still returns the metadata record,   *)
(* and a delete of the id succeeds and leaves no record for it.            *)
MetadataOnlyTolerated == []MetadataOnlyCalls /\ [][MetadataOnlyRequests]_vars

\* after the crash, a query for the id with metadata only was answered 404
MetadataOnlyToleratedWitness ==
    /\ crashes > 0
    /\ LoopFree
    /\ sent.op = "query"
    /\ sent.resp.status = 404
    /\ sent.id # 0
    /\ MetadataOnly(sent.id)

\* the id has a content record and no metadata record, and no delete of
\* the id stands between its two removals
ContentOnly(id) ==
    /\ os_path_exists(files, get_content_path(id))
    /\ ~os_path_exists(files, get_metadata_path(id))
    /\ \A r \in Slots : ~(reqs[r].op = "delete" /\ reqs[r].id = id)

\* a delete request for an id without metadata record is answered 404 in
\* the step it is received and changes no file
DeleteWithoutMetadata(id) ==
    /\ \A r \in Slots :
         (reqs[r].pc = "idle" /\ reqs'[r].op = "delete") => reqs'[r].id # id
    /\ (AnsweredAtOnce("delete") /\ sent'.id = id) =>
         /\ sent'.resp.status = 404
         /\ files' = files

\* no step takes the content record away or brings the metadata back, and
\* a query for the id is served from the content record: never 404, the
\* 400 of an empty text or the answer service entered with the record's text
ContentOnlyStays(id) ==
    LET text == DocumentText(load_document_content(files, id).value)
    IN /\ files'[get_content_path(id)] = files[get_content_path(id)]
       /\ ~os_path_exists(files', get_metadata_path(id))
       /\ (AnsweredAtOnce("query") /\ sent'.id = id) =>
            /\ sent'.resp.status = 400
            /\ text = <<>>
       /\ \A r \in Slots :
            (reqs[r].pc = "idle" /\ reqs'[r].op = "query" /\ reqs'[r].id = id) =>
              /\ text # <<>>
              /\ llm_pc' = "start"
              /\ llm_doc' = text

(* C14: the delete endpoint is gated on the metadata record only: a delete *)
(* request for an id without metadata record answers 404 and changes       *)
(* nothing in the store, even when a content record of the id exists; so   *)
(* a content record without metadata is never removed, and queries for the *)
(* id keep being served from it.                                           *)
DeleteGatedOnMetadata ==
    [][ \A id \in Ids :
          /\ ~os_path_exists(files, get_metadata_path(id)) => DeleteWithoutMetadata(id)
          /\ ContentOnly(id) => ContentOnlyStays(id) ]_vars

\* a delete request for an id with a content record and no metadata record
\* was answered 404, and the content record is still there
DeleteGatedOnMetadataWitness ==
    /\ LoopFree
    /\ sent.op = "delete"
    /\ sent.resp.status = 404
    /\ sent.id # 0
    /\ ContentOnly(sent.id)

====
